---- MODULE Spec2Model ----
(***************************************************************************)
(* Cursor ("timeline") queries of catapult-rest: the Timeline engine, the  *)
(* From/Since query builders of every family, and the route helpers that   *)
(* classify the anchor and map the outcome to an HTTP status.              *)
(*                                                                         *)
(* A behaviour is about one family: its collection grows by inserts, and   *)
(* one cursor request at a time walks through its store operations.        *)
(* Documents are functions from the dotted field paths of the store to     *)
(* values, so a path a document does not have is absent for the query      *)
(* operators exactly as it is in the store.                                *)
(***************************************************************************)
EXTENDS Integers, Sequences, FiniteSets, TLC

\* ------------------------------------------------------------------ bounds
MaxDocs == 3
MaxCount == 3
MaxHeight == 2
MaxPages == 3
LongBits == 5
MaxHops == 2

\* ------------------------------------------------------ sentinel values
RECURSIVE Pow2(_)
Pow2(n) == IF n = 0 THEN 1 ELSE 2 * Pow2(n - 1)

\* Timeline.minLong(): Long(0, 0)
minLong == 0
\* Timeline.maxLong(): Long(0xFFFFFFFF, 0x7FFFFFFF), the greatest signed long
maxLong == Pow2(LongBits - 1) - 1
\* Timeline.minObjectId(): ObjectId('000000000000000000000000')
minObjectId == 0
\* Timeline.maxObjectId(): ObjectId('FFFFFFFFFFFFFFFFFFFFFFFF')
maxObjectId == Pow2(LongBits) - 1

\* --------------------------------------------------- store query operators
\* A query operator on a path matches only documents that have the path.
Has(doc, path) == path \in DOMAIN doc
OpEq(doc, path, v) == Has(doc, path) /\ doc[path] = v
OpLt(doc, path, v) == Has(doc, path) /\ doc[path] < v
OpGt(doc, path, v) == Has(doc, path) /\ doc[path] > v
OpLte(doc, path, v) == Has(doc, path) /\ doc[path] <= v
OpGte(doc, path, v) == Has(doc, path) /\ doc[path] >= v
\* [ordering]: '$lt' or '$gt' chosen by the caller
OpOrd(ordering, doc, path, v) == IF ordering = "$lt" THEN OpLt(doc, path, v) ELSE OpGt(doc, path, v)

\* The value a sort compares: an absent path sorts before every number.
SortVal(doc, path) == IF Has(doc, path) THEN doc[path] ELSE -2

\* A sort specification is a sequence of <<path, order>>, order 1 or -1.
Before(a, b, spec) ==
    \E i \in 1..Len(spec) :
        /\ \A j \in 1..(i - 1) : SortVal(a, spec[j][1]) = SortVal(b, spec[j][1])
        /\ IF spec[i][2] = 1
             THEN SortVal(a, spec[i][1]) < SortVal(b, spec[i][1])
             ELSE SortVal(a, spec[i][1]) > SortVal(b, spec[i][1])

RECURSIVE SortDocs(_, _)
SortDocs(S, spec) ==
    IF S = {} THEN <<>>
    ELSE LET first == CHOOSE x \in S : \A y \in S : ~Before(y, x, spec)
         IN <<first>> \o SortDocs(S \ {first}, spec)

SortStream(s, spec) == SortDocs({s[i] : i \in 1..Len(s)}, spec)

Take(s, n) == IF Len(s) <= n THEN s ELSE SubSeq(s, 1, n)

Range(s) == {s[i] : i \in 1..Len(s)}

\* Documents with a field added / removed ($addFields, $project: 0, delete).
AddField(doc, path, v) == [p \in (DOMAIN doc) \cup {path} |-> IF p = path THEN v ELSE doc[p]]
DropFields(doc, paths) == [p \in (DOMAIN doc) \ paths |-> doc[p]]

\* ------------------------------------------------------------- cursors
\* Without a sort the store returns documents in insertion order.
NaturalOrder == <<<<"_id", 1>>>>

\* collection.find(condition): a cursor whose sort and limit are options of
\* one find command; a later sort() replaces the earlier one, and the
\* command sorts before it limits, whatever the order of the calls.
find(docs) == [docs |-> docs, sort |-> NaturalOrder, limit |-> 0]
CursorSort(cursor, spec) == [cursor EXCEPT !.sort = spec]
CursorLimit(cursor, n) == [cursor EXCEPT !.limit = n]
CursorToArray(cursor) ==
    LET sorted == SortDocs(cursor.docs, cursor.sort)
    IN IF cursor.limit = 0 THEN sorted ELSE Take(sorted, cursor.limit)

\* collection.aggregate(pipeline): every sort()/limit() call appends a
\* stage, and the stages run in the order of the calls.
aggregate(docs) == SortDocs(docs, NaturalOrder)
AggSort(stream, spec) == SortStream(stream, spec)
AggLimit(stream, n) == Take(stream, n)

\* What a promise settles to: undefined, an array of documents, or the
\* rejection of a store operation that failed.
Undefined == [kind |-> "undefined", docs |-> <<>>]
Rejected == [kind |-> "rejected", docs |-> <<>>]
Resolved(s) == [kind |-> "array", docs |-> s]
\* A method that threw an Error before it made a promise.
Thrown == [kind |-> "thrown", docs |-> <<>>]

\* collection.findOne(conditions).then(mapToPromise)
queryDocument(matched) ==
    IF matched = {} THEN Undefined ELSE Resolved(<<SortDocs(matched, NaturalOrder)[1]>>)

\* ------------------------------------------------------------ sanitizer
deleteIds(dbObjects) == [i \in 1..Len(dbObjects) |-> DropFields(dbObjects[i], {"_id"})]
copyAndDeleteIds(dbObjects) ==
    [i \in 1..Len(dbObjects) |->
        DropFields(AddField(dbObjects[i], "meta.id", dbObjects[i]["_id"]), {"_id"})]
copyAndDeleteId(dbObject) ==
    IF dbObject.kind = "undefined" THEN dbObject ELSE Resolved(copyAndDeleteIds(dbObject.docs))
Project(stream, paths) == [i \in 1..Len(stream) |-> DropFields(stream[i], paths)]

\* ------------------------------------------------------- cursor: blocks
\* calculateFromHeight ending at the chain height whatever the height given
calculateFromHeightLatest(height, chainHeight, numBlocks) ==
    LET endHeight == chainHeight + 1
        startHeight == IF endHeight > numBlocks THEN endHeight - numBlocks ELSE 1
    IN [startHeight |-> startHeight, endHeight |-> endHeight]

\* calculateFromHeight counting back from the height given, not from the end
calculateFromHeightFromTarget(height, chainHeight, numBlocks) ==
    LET endHeight == IF height > chainHeight THEN chainHeight + 1 ELSE height
        startHeight == IF height > numBlocks THEN height - numBlocks ELSE 1
    IN [startHeight |-> startHeight, endHeight |-> endHeight]

calculateFromHeight(height, chainHeight, numBlocks) ==
    LET endHeight == IF height > chainHeight THEN chainHeight + 1 ELSE height
        startHeight == IF endHeight > numBlocks THEN endHeight - numBlocks ELSE 1
    IN [startHeight |-> startHeight, endHeight |-> endHeight]

\* calculateSinceHeight starting one block early
calculateSinceHeightEarly(height, chainHeight, numBlocks) ==
    LET startHeight == IF height > chainHeight THEN chainHeight ELSE height - 1
        endHeight == startHeight + numBlocks
    IN [startHeight |-> startHeight, endHeight |-> endHeight]

\* calculateSinceHeight ending one block short
calculateSinceHeightShort(height, chainHeight, numBlocks) ==
    LET startHeight == IF height > chainHeight THEN chainHeight + 1 ELSE height
        endHeight == startHeight + numBlocks - 1
    IN [startHeight |-> startHeight, endHeight |-> endHeight]

calculateSinceHeight(height, chainHeight, numBlocks) ==
    LET startHeight == IF height > chainHeight THEN chainHeight + 1 ELSE height
        endHeight == startHeight + numBlocks
    IN [startHeight |-> startHeight, endHeight |-> endHeight]

rawBlockByHash(docs, hash) == queryDocument({d \in docs : OpEq(d, "meta.hash", hash)})

rawBlockByHeight(docs, height) == queryDocument({d \in docs : OpEq(d, "block.height", height)})

\* sortedBlocks sorting by ascending height
sortedBlocksAscending(matched, count) ==
    deleteIds(Project(
        CursorToArray(CursorLimit(CursorSort(find(matched), <<<<"block.height", 1>>>>), count)),
        {"meta.transactionMerkleTree", "meta.statementMerkleTree"}))

sortedBlocks(matched, count) ==
    deleteIds(Project(
        CursorToArray(CursorLimit(CursorSort(find(matched), <<<<"block.height", -1>>>>), count)),
        {"meta.transactionMerkleTree", "meta.statementMerkleTree"}))

blocksv2From(docs, chainHeight, height, count) ==
    LET r == calculateFromHeight(height, chainHeight, count)
    IN sortedBlocks({d \in docs : OpGte(d, "block.height", r.startHeight)
                                  /\ OpLt(d, "block.height", r.endHeight)}, count)

\* blocksv2Since with the bounds of blocksv2From: $gte the start, $lt the end
blocksv2SinceHalfOpen(docs, chainHeight, height, count) ==
    LET r == calculateSinceHeight(height, chainHeight, count)
    IN sortedBlocks({d \in docs : OpGte(d, "block.height", r.startHeight)
                                  /\ OpLt(d, "block.height", r.endHeight)}, count)

blocksv2Since(docs, chainHeight, height, count) ==
    LET r == calculateSinceHeight(height, chainHeight, count)
    IN sortedBlocks({d \in docs : OpGt(d, "block.height", r.startHeight)
                                  /\ OpLte(d, "block.height", r.endHeight)}, count)

\* ------------------------------------------------- cursor: transactions
isAggregateType(document) ==
    document["transaction.type"] \in {"aggregateComplete", "aggregateBonded"}

rawTransactionByHash(docs, hash) == queryDocument({d \in docs : OpEq(d, "meta.hash", hash)})

rawTransactionById(docs, id) == copyAndDeleteId(queryDocument({d \in docs : OpEq(d, "_id", id)}))

\* The page before addAggregateTransactions.
sortedTransactions(matched, sortAscending, count) ==
    LET order == IF sortAscending THEN 1 ELSE -1
        initialSort == <<<<"meta.height", order>>, <<"meta.index", order>>>>
        finalSort == <<<<"meta.height", -1>>, <<"meta.index", -1>>>>
    IN copyAndDeleteIds(Project(
           CursorToArray(CursorSort(CursorLimit(CursorSort(find(matched), initialSort), count), finalSort)),
           {"meta.addresses"}))

transactionsFrom(docs, height, index, count) ==
    sortedTransactions({d \in docs :
        /\ ~Has(d, "meta.aggregateId")
        /\ \/ OpEq(d, "meta.height", height) /\ OpLt(d, "meta.index", index)
           \/ OpLt(d, "meta.height", height)}, FALSE, count)

transactionsSince(docs, height, index, count) ==
    sortedTransactions({d \in docs :
        /\ ~Has(d, "meta.aggregateId")
        /\ \/ OpEq(d, "meta.height", height) /\ OpGt(d, "meta.index", index)
           \/ OpGt(d, "meta.height", height)}, TRUE, count)

transactionsByTypeFrom(docs, height, index, type, count) ==
    sortedTransactions({d \in docs :
        /\ ~Has(d, "meta.aggregateId")
        /\ OpEq(d, "transaction.type", type)
        /\ \/ OpEq(d, "meta.height", height) /\ OpLt(d, "meta.index", index)
           \/ OpLt(d, "meta.height", height)}, FALSE, count)

transactionsByTypeSince(docs, height, index, type, count) ==
    sortedTransactions({d \in docs :
        /\ ~Has(d, "meta.aggregateId")
        /\ OpEq(d, "transaction.type", type)
        /\ \/ OpEq(d, "meta.height", height) /\ OpGt(d, "meta.index", index)
           \/ OpGt(d, "meta.height", height)}, TRUE, count)

\* extractAggregateIds: the ids of the transactions of aggregate type
extractAggregateIds(transactions) ==
    {transactions[i]["meta.id"] : i \in {j \in 1..Len(transactions) : isAggregateType(transactions[j])}}

\* addAggregateTransactions pushing every document found onto every parent
\* of the page, whichever parent the document names
addAggregateTransactionsOntoEvery(docs, transactions) ==
    [i \in 1..Len(transactions) |->
        LET t == transactions[i]
        IN IF isAggregateType(t)
             THEN LET inner == copyAndDeleteIds(SortDocs(
                          {d \in docs : Has(d, "meta.aggregateId")
                                        /\ d["meta.aggregateId"] \in extractAggregateIds(transactions)},
                          NaturalOrder))
                  IN IF inner = <<>> THEN t ELSE AddField(t, "transaction.transactions", inner)
             ELSE t]

\* queryAggregateTransactions, then addAggregateTransaction on every document
\* found: each parent of aggregate type gets the documents that name it.
addAggregateTransactions(docs, transactions) ==
    [i \in 1..Len(transactions) |->
        LET t == transactions[i]
        IN IF isAggregateType(t)
             THEN LET inner == copyAndDeleteIds(SortDocs(
                          {d \in docs : Has(d, "meta.aggregateId") /\ d["meta.aggregateId"] = t["meta.id"]},
                          NaturalOrder))
                  IN IF inner = <<>> THEN t ELSE AddField(t, "transaction.transactions", inner)
             ELSE t]

\* ------------------------------------------------------ cursor: mosaics
rawMosaicById(docs, id) == queryDocument({d \in docs : OpEq(d, "mosaic.id", id)})

sortedMosaics(matched, sortAscending, count) ==
    LET order == IF sortAscending THEN 1 ELSE -1
        initialSort == <<<<"mosaic.startHeight", order>>, <<"_id", order>>>>
        finalSort == <<<<"mosaic.startHeight", -1>>, <<"_id", -1>>>>
    IN deleteIds(CursorToArray(CursorSort(CursorLimit(CursorSort(find(matched), initialSort), count), finalSort)))

\* mosaicsFrom with $lte in place of $lt on the id
mosaicsFromInclusive(docs, height, id, count) ==
    sortedMosaics({d \in docs :
        \/ OpEq(d, "mosaic.startHeight", height) /\ OpLte(d, "_id", id)
        \/ OpLt(d, "mosaic.startHeight", height)}, FALSE, count)

mosaicsFrom(docs, height, id, count) ==
    sortedMosaics({d \in docs :
        \/ OpEq(d, "mosaic.startHeight", height) /\ OpLt(d, "_id", id)
        \/ OpLt(d, "mosaic.startHeight", height)}, FALSE, count)

mosaicsSince(docs, height, id, count) ==
    sortedMosaics({d \in docs :
        \/ OpEq(d, "mosaic.startHeight", height) /\ OpGt(d, "_id", id)
        \/ OpGt(d, "mosaic.startHeight", height)}, TRUE, count)

\* --------------------------------------------------- cursor: namespaces
rawNamespaceByObjectId(docs, id) == queryDocument({d \in docs : OpEq(d, "_id", id)})

\* rawNamespaceById without the condition on namespace.depth
rawNamespaceByIdAnyLevel(docs, id) ==
    queryDocument({d \in docs : \E level \in 0..2 :
        /\ OpEq(d, "meta.active", TRUE)
        /\ OpEq(d, <<"namespace.level0", "namespace.level1", "namespace.level2">>[level + 1], id)})

rawNamespaceById(docs, id) ==
    queryDocument({d \in docs : \E level \in 0..2 :
        /\ OpEq(d, "meta.active", TRUE)
        /\ OpEq(d, <<"namespace.level0", "namespace.level1", "namespace.level2">>[level + 1], id)
        /\ OpEq(d, "namespace.depth", level + 1)})

\* sortedNamespaces without the limit
sortedNamespacesUnlimited(matched, sortAscending, count) ==
    LET order == IF sortAscending THEN 1 ELSE -1
        initialSort == <<<<"namespace.startHeight", order>>, <<"_id", order>>>>
        finalSort == <<<<"namespace.startHeight", -1>>, <<"_id", -1>>>>
    IN copyAndDeleteIds(CursorToArray(CursorSort(CursorSort(find(matched), initialSort), finalSort)))

sortedNamespaces(matched, sortAscending, count) ==
    LET order == IF sortAscending THEN 1 ELSE -1
        initialSort == <<<<"namespace.startHeight", order>>, <<"_id", order>>>>
        finalSort == <<<<"namespace.startHeight", -1>>, <<"_id", -1>>>>
    IN copyAndDeleteIds(CursorToArray(CursorSort(CursorLimit(CursorSort(find(matched), initialSort), count), finalSort)))

namespacesFrom(docs, height, id, count) ==
    sortedNamespaces({d \in docs :
        \/ OpEq(d, "namespace.startHeight", height) /\ OpLt(d, "_id", id)
        \/ OpLt(d, "namespace.startHeight", height)}, FALSE, count)

namespacesSince(docs, height, id, count) ==
    sortedNamespaces({d \in docs :
        \/ OpEq(d, "namespace.startHeight", height) /\ OpGt(d, "_id", id)
        \/ OpGt(d, "namespace.startHeight", height)}, TRUE, count)

\* ----------------------------------------------------- cursor: accounts
RECURSIVE SumSeq(_)
SumSeq(s) == IF s = <<>> THEN 0 ELSE Head(s) + SumSeq(Tail(s))

\* addFieldImportanceImpl('value'): the last importance, or Long(0)
addFieldImportance(doc) ==
    LET importances == doc["account.importances"]
    IN IF Len(importances) > 0 THEN importances[Len(importances)].value ELSE 0

addFieldImportanceHeight(doc) ==
    LET importances == doc["account.importances"]
    IN IF Len(importances) > 0 THEN importances[Len(importances)].height ELSE 0

addFieldHarvestedBlocks(doc) == Len(doc["account.activityBuckets"])

addFieldHarvestedFees(doc) ==
    LET buckets == doc["account.activityBuckets"]
    IN SumSeq([i \in 1..Len(buckets) |-> buckets[i].totalFeesPaid])

addFieldMosaicBalance(doc, mosaicId) ==
    LET mosaics == doc["account.mosaics"]
    IN SumSeq([i \in 1..Len(mosaics) |-> IF mosaics[i].id = mosaicId THEN mosaics[i].amount ELSE 0])

\* address.publicKeyToAddress(publicKey, networkId) with this.networkId
publicKeyToAddress(publicKey) == publicKey - 10

\* The $addFields stage of each account family.
withImportance(doc) ==
    AddField(AddField(doc, "account.importance", addFieldImportance(doc)),
             "account.importanceHeight", addFieldImportanceHeight(doc))
withHarvestedBlocks(doc) ==
    AddField(withImportance(doc), "account.harvestedBlocks", addFieldHarvestedBlocks(doc))
withHarvestedFees(doc) ==
    AddField(withHarvestedBlocks(doc), "account.harvestedFees", addFieldHarvestedFees(doc))
withBalance(doc, mosaicId) ==
    AddField(withImportance(doc), "account.balance", addFieldMosaicBalance(doc, mosaicId))

\* addFields is the $addFields stage: the document each document becomes.
rawAccountByAddress(docs, address, addFields, projection) ==
    LET accounts == AggLimit(Project(
            aggregate({addFields[d] : d \in {x \in docs : OpEq(x, "account.address", address)}}),
            projection), 1)
    IN IF accounts = <<>> THEN Undefined ELSE Resolved(accounts)

\* The condition document: $or of clauses, each an $and of <<path, operator, value>>.
accountMatchCondition(field, ordering, value, height, id) ==
    {{<<field, ordering, value>>},
     {<<field, "$eq", value>>, <<"meta.publicKeyHeight", "$eq", height>>, <<"_id", ordering, id>>},
     {<<field, "$eq", value>>, <<"meta.publicKeyHeight", ordering, height>>}}

\* { $match: condition }
Match(doc, condition) ==
    \E clause \in condition : \A t \in clause :
        IF t[2] = "$eq" THEN OpEq(doc, t[1], t[3]) ELSE OpOrd(t[2], doc, t[1], t[3])

rawAccountWithImportanceByAddress(docs, address) ==
    rawAccountByAddress(docs, address, [d \in docs |-> withImportance(d)], {"account.importances"})

\* rawAccountWithImportanceByPublicKey without the $addFields stage: the
\* record has no computed importance, which reads as zero
rawAccountWithImportanceByPublicKeyUnranked(docs, publicKey) ==
    rawAccountByAddress(docs, publicKeyToAddress(publicKey),
                        [d \in docs |-> AddField(withImportance(d), "account.importance", 0)],
                        {"account.importances"})

rawAccountWithImportanceByPublicKey(docs, publicKey) ==
    rawAccountWithImportanceByAddress(docs, publicKeyToAddress(publicKey))

sortedAccountsByImportance(docs, condition, sortAscending, count) ==
    LET order == IF sortAscending THEN 1 ELSE -1
        initialSort == <<<<"account.importance", order>>, <<"account.publicKeyHeight", order>>, <<"_id", order>>>>
        finalSort == <<<<"account.importance", -1>>, <<"account.publicKeyHeight", -1>>, <<"_id", -1>>>>
        matched == {a \in {withImportance(d) : d \in docs} : Match(a, condition)}
    IN deleteIds(Project(
           AggSort(AggLimit(AggSort(aggregate(matched), initialSort), count), finalSort),
           {"account.importances"}))

accountsByImportanceFrom(docs, importance, height, id, numAccounts) ==
    sortedAccountsByImportance(docs,
        accountMatchCondition("account.importance", "$lt", importance, height, id),
        FALSE, numAccounts)

accountsByImportanceSince(docs, importance, height, id, numAccounts) ==
    sortedAccountsByImportance(docs,
        accountMatchCondition("account.importance", "$gt", importance, height, id),
        TRUE, numAccounts)

rawAccountWithHarvestedBlocksByAddress(docs, address) ==
    rawAccountByAddress(docs, address, [d \in docs |-> withHarvestedBlocks(d)], {"account.importances"})

rawAccountWithHarvestedBlocksByPublicKey(docs, publicKey) ==
    rawAccountWithHarvestedBlocksByAddress(docs, publicKeyToAddress(publicKey))

sortedAccountsByHarvestedBlocks(docs, condition, sortAscending, count) ==
    LET order == IF sortAscending THEN 1 ELSE -1
        initialSort == <<<<"account.harvestedBlocks", order>>, <<"account.publicKeyHeight", order>>, <<"_id", order>>>>
        finalSort == <<<<"account.harvestedBlocks", -1>>, <<"account.publicKeyHeight", -1>>, <<"_id", -1>>>>
        matched == {a \in {withHarvestedBlocks(d) : d \in docs} : Match(a, condition)}
    IN deleteIds(Project(
           AggSort(AggLimit(AggSort(aggregate(matched), initialSort), count), finalSort),
           {"account.importances", "account.harvestedBlocks"}))

accountsByHarvestedBlocksFrom(docs, harvestedBlocks, height, id, numAccounts) ==
    sortedAccountsByHarvestedBlocks(docs,
        accountMatchCondition("account.harvestedBlocks", "$lt", harvestedBlocks, height, id),
        FALSE, numAccounts)

accountsByHarvestedBlocksSince(docs, harvestedBlocks, height, id, numAccounts) ==
    sortedAccountsByHarvestedBlocks(docs,
        accountMatchCondition("account.harvestedBlocks", "$gt", harvestedBlocks, height, id),
        TRUE, numAccounts)

rawAccountWithHarvestedFeesByAddress(docs, address) ==
    rawAccountByAddress(docs, address, [d \in docs |-> withHarvestedFees(d)],
        {"account.importances", "account.harvestedBlocks"})

rawAccountWithHarvestedFeesByPublicKey(docs, publicKey) ==
    rawAccountWithHarvestedFeesByAddress(docs, publicKeyToAddress(publicKey))

\* sortedAccountsByHarvestedFees sorting without account.harvestedBlocks
sortedAccountsByHarvestedFeesThreeKeys(docs, condition, sortAscending, count) ==
    LET order == IF sortAscending THEN 1 ELSE -1
        initialSort == <<<<"account.harvestedFees", order>>, <<"account.publicKeyHeight", order>>, <<"_id", order>>>>
        finalSort == <<<<"account.harvestedFees", -1>>, <<"account.publicKeyHeight", -1>>, <<"_id", -1>>>>
        matched == {a \in {withHarvestedFees(d) : d \in docs} : Match(a, condition)}
    IN deleteIds(Project(
           AggSort(AggLimit(AggSort(aggregate(matched), initialSort), count), finalSort),
           {"account.importances", "account.harvestedBlocks", "account.harvestedFees"}))

sortedAccountsByHarvestedFees(docs, condition, sortAscending, count) ==
    LET order == IF sortAscending THEN 1 ELSE -1
        initialSort == <<<<"account.harvestedFees", order>>, <<"account.harvestedBlocks", order>>,
                         <<"account.publicKeyHeight", order>>, <<"_id", order>>>>
        finalSort == <<<<"account.harvestedFees", -1>>, <<"account.harvestedBlocks", -1>>,
                       <<"account.publicKeyHeight", -1>>, <<"_id", -1>>>>
        matched == {a \in {withHarvestedFees(d) : d \in docs} : Match(a, condition)}
    IN deleteIds(Project(
           AggSort(AggLimit(AggSort(aggregate(matched), initialSort), count), finalSort),
           {"account.importances", "account.harvestedBlocks", "account.harvestedFees"}))

accountsByHarvestedFeesFrom(docs, harvestedFees, height, id, numAccounts) ==
    sortedAccountsByHarvestedFees(docs,
        accountMatchCondition("account.harvestedFees", "$lt", harvestedFees, height, id),
        FALSE, numAccounts)

accountsByHarvestedFeesSince(docs, harvestedFees, height, id, numAccounts) ==
    sortedAccountsByHarvestedFees(docs,
        accountMatchCondition("account.harvestedFees", "$gt", harvestedFees, height, id),
        TRUE, numAccounts)

\* ------------------------------------- cursor: accounts by mosaic balance
\* The well-known namespace ids (uint64.fromHex of the three literals).
CURRENCY_ID == 101
HARVEST_ID == 102
XEM_ID == 103

\* namespace => undefined === namespace ? undefined : namespace.namespace.alias.mosaicId
aliasMosaicId(namespace) ==
    IF namespace.kind = "undefined" \/ ~Has(namespace.docs[1], "namespace.alias.mosaicId")
      THEN Undefined
      ELSE Resolved(<<namespace.docs[1]["namespace.alias.mosaicId"]>>)

networkCurrencyMosaic(nsDocs) == aliasMosaicId(rawNamespaceById(nsDocs, CURRENCY_ID))
networkHarvestMosaic(nsDocs) == aliasMosaicId(rawNamespaceById(nsDocs, HARVEST_ID))
networkXemMosaic(nsDocs) == aliasMosaicId(rawNamespaceById(nsDocs, XEM_ID))

sortedAccountsByMosaicBalance(docs, mosaicId, condition, sortAscending, count) ==
    LET order == IF sortAscending THEN 1 ELSE -1
        initialSort == <<<<"account.balance", order>>, <<"account.publicKeyHeight", order>>, <<"_id", order>>>>
        finalSort == <<<<"account.balance", -1>>, <<"account.publicKeyHeight", -1>>, <<"_id", -1>>>>
        matched == {a \in {withBalance(d, mosaicId) : d \in docs} : Match(a, condition)}
    IN deleteIds(Project(
           AggSort(AggLimit(AggSort(aggregate(matched), initialSort), count), finalSort),
           {"account.importances", "account.balance"}))

\* rawAccountWith<Currency|Harvest|Xem>BalanceByAddress, after the alias read
rawAccountWithBalanceByAddress(docs, mosaic, address) ==
    IF mosaic.kind = "undefined" THEN Undefined
    ELSE rawAccountByAddress(docs, address, [d \in docs |-> withBalance(d, mosaic.docs[1])],
        {"account.importances"})

\* sortedAccountsBy<Currency|Harvest|Xem>Balance without the test for an
\* undefined mosaic id
sortedAccountsByBalanceUnchecked(docs, mosaic, condition, sortAscending, count) ==
    Resolved(sortedAccountsByMosaicBalance(docs,
        IF mosaic.kind = "undefined" THEN 0 ELSE mosaic.docs[1], condition, sortAscending, count))

\* sortedAccountsBy<Currency|Harvest|Xem>Balance, after the alias read
sortedAccountsByBalance(docs, mosaic, condition, sortAscending, count) ==
    IF mosaic.kind = "undefined" THEN Undefined
    ELSE Resolved(sortedAccountsByMosaicBalance(docs, mosaic.docs[1], condition, sortAscending, count))

\* accountsBy<Currency|Harvest|Xem>BalanceFrom
accountsByBalanceFrom(docs, mosaic, balance, height, id, numAccounts) ==
    sortedAccountsByBalance(docs, mosaic,
        accountMatchCondition("account.balance", "$lt", balance, height, id),
        FALSE, numAccounts)

\* accountsBy<Currency|Harvest|Xem>BalanceSince
accountsByBalanceSince(docs, mosaic, balance, height, id, numAccounts) ==
    sortedAccountsByBalance(docs, mosaic,
        accountMatchCondition("account.balance", "$gt", balance, height, id),
        TRUE, numAccounts)

\* ------------------------------ cursor: transactions by type with filter
\* $reduce over transaction.mosaics: some mosaic id is outside the network
\* ids; null when the document has no such array.
hasMosaics(doc) ==
    IF ~Has(doc, "transaction.mosaics") THEN FALSE
    ELSE \E i \in 1..Len(doc["transaction.mosaics"]) :
           doc["transaction.mosaics"][i].id \notin {CURRENCY_ID, HARVEST_ID}

\* $lookup from 'multisigs' on meta.addresses = multisig.accountAddress
linkedMultisigAccounts(doc, msDocs) ==
    {m \in msDocs : Has(doc, "meta.addresses") /\ m["multisig.accountAddress"] \in doc["meta.addresses"]}

\* The pipeline of transactionsByTypeWithFilter once type and filter are
\* accepted, before addAggregateTransactions.
filteredTransactions(matched, msDocs, filter, sortAscending, count) ==
    LET order == IF sortAscending THEN 1 ELSE -1
        initialSort == <<<<"meta.height", order>>, <<"meta.index", order>>>>
        finalSort == <<<<"meta.height", -1>>, <<"meta.index", -1>>>>
        kept == IF filter = "mosaic" THEN {d \in matched : hasMosaics(d)}
                ELSE {d \in matched : Cardinality(linkedMultisigAccounts(d, msDocs)) > 0}
    IN copyAndDeleteIds(Project(
           AggSort(AggLimit(AggSort(aggregate(kept), initialSort), count), finalSort),
           {"meta.addresses"}))

\* transactionsByTypeWithFilter answering an unknown type or filter with
\* the page of the type alone
transactionsByTypeWithFilterLenient(matched, msDocs, type, filter, sortAscending, count) ==
    IF type = "transfer" /\ filter \in {"mosaic", "multisig"}
      THEN Resolved(filteredTransactions(matched, msDocs, filter, sortAscending, count))
      ELSE Resolved(sortedTransactions(matched, sortAscending, count))

\* transactionsByTypeWithFilter: the page before addAggregateTransactions,
\* or the Error thrown on a type or a filter it does not know.
transactionsByTypeWithFilter(matched, msDocs, type, filter, sortAscending, count) ==
    IF type = "transfer"
      THEN IF filter \in {"mosaic", "multisig"}
             THEN Resolved(filteredTransactions(matched, msDocs, filter, sortAscending, count))
             ELSE Thrown
      ELSE Thrown

transactionsByTypeWithFilterFrom(docs, msDocs, height, index, type, filter, count) ==
    transactionsByTypeWithFilter({d \in docs :
        /\ ~Has(d, "meta.aggregateId")
        /\ OpEq(d, "transaction.type", type)
        /\ \/ OpEq(d, "meta.height", height) /\ OpLt(d, "meta.index", index)
           \/ OpLt(d, "meta.height", height)}, msDocs, type, filter, FALSE, count)

transactionsByTypeWithFilterSince(docs, msDocs, height, index, type, filter, count) ==
    transactionsByTypeWithFilter({d \in docs :
        /\ ~Has(d, "meta.aggregateId")
        /\ OpEq(d, "transaction.type", type)
        /\ \/ OpEq(d, "meta.height", height) /\ OpGt(d, "meta.index", index)
           \/ OpGt(d, "meta.height", height)}, msDocs, type, filter, TRUE, count)

\* ------------------------------------------------------ Timeline engine
\* { ...a, ...b }: the keys of b replace those of a
Spread(a, b) == [k \in (DOMAIN a) \cup (DOMAIN b) |-> IF k \in DOMAIN b THEN b[k] ELSE a[k]]

\* generateAbsoluteParameters with fromMin and sinceMax queried like the others
generateAbsoluteParametersQueried(info) ==
    [fromMin |-> [type |-> "absolute",
                  methodName |-> info.baseMethodName \o "From",
                  generateArgs |-> info.generateMinArgs],
     fromMax |-> [type |-> "absolute",
                  methodName |-> info.baseMethodName \o "From",
                  generateArgs |-> info.generateMaxArgs],
     sinceMin |-> [type |-> "absolute",
                   methodName |-> info.baseMethodName \o "Since",
                   generateArgs |-> info.generateMinArgs],
     sinceMax |-> [type |-> "absolute",
                   methodName |-> info.baseMethodName \o "Since",
                   generateArgs |-> info.generateMaxArgs]]

generateAbsoluteParameters(info) ==
    [fromMin |-> [type |-> "empty"],
     fromMax |-> [type |-> "absolute",
                  methodName |-> info.baseMethodName \o "From",
                  generateArgs |-> info.generateMaxArgs],
     sinceMin |-> [type |-> "absolute",
                   methodName |-> info.baseMethodName \o "Since",
                   generateArgs |-> info.generateMinArgs],
     sinceMax |-> [type |-> "empty"]]

generateIdParameters(info) ==
    (("from" \o info.keyName) :> [type |-> "identifier",
                                   idMethodName |-> info.idMethodName,
                                   methodName |-> info.baseMethodName \o "From",
                                   generateArgs |-> info.generateArgs])
    @@ (("since" \o info.keyName) :> [type |-> "identifier",
                                       idMethodName |-> info.idMethodName,
                                       methodName |-> info.baseMethodName \o "Since",
                                       generateArgs |-> info.generateArgs])

\* A timeline with min/max arguments and two identifier kinds.
Timeline2(base, minArgs, maxArgs, toArgs, key1, idMethod1, key2, idMethod2) ==
    Spread(Spread(
        generateAbsoluteParameters([baseMethodName |-> base, generateMinArgs |-> minArgs,
                                    generateMaxArgs |-> maxArgs]),
        generateIdParameters([keyName |-> key1, baseMethodName |-> base,
                              idMethodName |-> idMethod1, generateArgs |-> toArgs])),
        generateIdParameters([keyName |-> key2, baseMethodName |-> base,
                              idMethodName |-> idMethod2, generateArgs |-> toArgs]))

blockTimeline ==
    Timeline2("blocksv2", "blockMinArgs", "blockMaxArgs", "blockToArgs",
              "Hash", "rawBlockByHash", "Height", "rawBlockByHeight")

transactionTimeline ==
    Timeline2("transactions", "transactionMinArgs", "transactionMaxArgs", "transactionToArgs",
              "Hash", "rawTransactionByHash", "Id", "rawTransactionById")

transactionByTypeTimeline ==
    Timeline2("transactionsByType", "transactionMinArgs", "transactionMaxArgs", "transactionToArgs",
              "Hash", "rawTransactionByHash", "Id", "rawTransactionById")

transactionByTypeWithFilterTimeline ==
    Timeline2("transactionsByTypeWithFilter", "transactionMinArgs", "transactionMaxArgs",
              "transactionToArgs", "Hash", "rawTransactionByHash", "Id", "rawTransactionById")

accountByImportanceTimeline ==
    Timeline2("accountsByImportance", "accountMinArgs", "accountMaxArgs", "accountImportanceToArgs",
              "Address", "rawAccountWithImportanceByAddress",
              "PublicKey", "rawAccountWithImportanceByPublicKey")

accountByHarvestedBlocksTimeline ==
    Timeline2("accountsByHarvestedBlocks", "accountMinArgs", "accountMaxArgs", "accountHarvestedBlocksToArgs",
              "Address", "rawAccountWithHarvestedBlocksByAddress",
              "PublicKey", "rawAccountWithHarvestedBlocksByPublicKey")

accountByHarvestedFeesTimeline ==
    Timeline2("accountsByHarvestedFees", "accountMinArgs", "accountMaxArgs", "accountHarvestedFeesToArgs",
              "Address", "rawAccountWithHarvestedFeesByAddress",
              "PublicKey", "rawAccountWithHarvestedFeesByPublicKey")

mosaicTimeline ==
    Spread(generateAbsoluteParameters([baseMethodName |-> "mosaics", generateMinArgs |-> "mosaicMinArgs",
                                       generateMaxArgs |-> "mosaicMaxArgs"]),
           generateIdParameters([keyName |-> "Id", baseMethodName |-> "mosaics",
                                 idMethodName |-> "rawMosaicById", generateArgs |-> "mosaicToArgs"]))

namespaceTimeline ==
    Timeline2("namespaces", "namespaceMinArgs", "namespaceMaxArgs", "namespaceToArgs",
              "Id", "rawNamespaceById", "ObjectId", "rawNamespaceByObjectId")

accountByCurrencyBalanceTimeline ==
    Timeline2("accountsByCurrencyBalance", "accountMinArgs", "accountMaxArgs", "accountBalanceToArgs",
              "Address", "rawAccountWithCurrencyBalanceByAddress",
              "PublicKey", "rawAccountWithCurrencyBalanceByPublicKey")

accountByHarvestBalanceTimeline ==
    Timeline2("accountsByHarvestBalance", "accountMinArgs", "accountMaxArgs", "accountBalanceToArgs",
              "Address", "rawAccountWithHarvestBalanceByAddress",
              "PublicKey", "rawAccountWithHarvestBalanceByPublicKey")

accountByXemBalanceTimeline ==
    Timeline2("accountsByXemBalance", "accountMinArgs", "accountMaxArgs", "accountBalanceToArgs",
              "Address", "rawAccountWithXemBalanceByAddress",
              "PublicKey", "rawAccountWithXemBalanceByPublicKey")

\* The families, named by the Timeline that serves them.
Families ==
    {"blockTimeline", "transactionTimeline", "transactionByTypeTimeline", "mosaicTimeline",
     "namespaceTimeline", "accountByImportanceTimeline", "accountByHarvestedBlocksTimeline",
     "accountByHarvestedFeesTimeline", "accountByCurrencyBalanceTimeline",
     "accountByHarvestBalanceTimeline", "accountByXemBalanceTimeline"}

TimelineOf(f) ==
    CASE f = "blockTimeline" -> blockTimeline
      [] f = "transactionTimeline" -> transactionTimeline
      [] f = "transactionByTypeTimeline" -> transactionByTypeTimeline
      [] f = "transactionByTypeWithFilterTimeline" -> transactionByTypeWithFilterTimeline
      [] f = "mosaicTimeline" -> mosaicTimeline
      [] f = "namespaceTimeline" -> namespaceTimeline
      [] f = "accountByImportanceTimeline" -> accountByImportanceTimeline
      [] f = "accountByHarvestedBlocksTimeline" -> accountByHarvestedBlocksTimeline
      [] f = "accountByHarvestedFeesTimeline" -> accountByHarvestedFeesTimeline
      [] f = "accountByCurrencyBalanceTimeline" -> accountByCurrencyBalanceTimeline
      [] f = "accountByHarvestBalanceTimeline" -> accountByHarvestBalanceTimeline
      [] f = "accountByXemBalanceTimeline" -> accountByXemBalanceTimeline

BalanceFamilies ==
    {"accountByCurrencyBalanceTimeline", "accountByHarvestBalanceTimeline", "accountByXemBalanceTimeline"}
AccountFamilies ==
    BalanceFamilies \cup {"accountByImportanceTimeline", "accountByHarvestedBlocksTimeline",
                          "accountByHarvestedFeesTimeline"}
TransactionFamilies ==
    {"transactionTimeline", "transactionByTypeTimeline", "transactionByTypeWithFilterTimeline"}

\* The class whose constructor builds the family's Timeline and passes
\* itself as its database.
DatabaseOf(f) ==
    IF f = "mosaicTimeline" THEN "MosaicDb"
    ELSE IF f \in BalanceFamilies \cup {"namespaceTimeline", "transactionByTypeWithFilterTimeline"}
      THEN "NamespaceDb"
    ELSE "CatapultDb"

\* The lookup (raw...) and range (...From, ...Since) methods each class defines.
CatapultDbMethods ==
    {"blocksFrom", "rawBlockByHash", "rawBlockByHeight", "blocksv2From", "blocksv2Since",
     "rawTransactionByHash", "rawTransactionById", "transactionsFrom", "transactionsSince",
     "transactionsByTypeFrom", "transactionsByTypeSince", "rawAccountByAddress",
     "rawAccountWithImportanceByAddress", "rawAccountWithImportanceByPublicKey",
     "accountsByImportanceFrom", "accountsByImportanceSince",
     "rawAccountWithHarvestedBlocksByAddress", "rawAccountWithHarvestedBlocksByPublicKey",
     "accountsByHarvestedBlocksFrom", "accountsByHarvestedBlocksSince",
     "rawAccountWithHarvestedFeesByAddress", "rawAccountWithHarvestedFeesByPublicKey",
     "accountsByHarvestedFeesFrom", "accountsByHarvestedFeesSince"}

MosaicDbMethods == {"rawMosaicById", "mosaicsFrom", "mosaicsSince"}

\* NamespaceDb without rawTransactionByHash / rawTransactionById, the two
\* methods it forwards to catapultDb
NamespaceDbMethodsWithoutForwarding ==
    {"rawNamespaceByObjectId", "rawNamespaceById", "namespacesFrom", "namespacesSince",
     "rawAccountWithCurrencyBalanceByAddress", "rawAccountWithCurrencyBalanceByPublicKey",
     "accountsByCurrencyBalanceFrom", "accountsByCurrencyBalanceSince",
     "rawAccountWithHarvestBalanceByAddress", "rawAccountWithHarvestBalanceByPublicKey",
     "accountsByHarvestBalanceFrom", "accountsByHarvestBalanceSince",
     "rawAccountWithXemBalanceByAddress", "rawAccountWithXemBalanceByPublicKey",
     "accountsByXemBalanceFrom", "accountsByXemBalanceSince",
     "transactionsByTypeWithFilterFrom", "transactionsByTypeWithFilterSince"}

NamespaceDbMethods ==
    {"rawNamespaceByObjectId", "rawNamespaceById", "namespacesFrom", "namespacesSince",
     "rawAccountWithCurrencyBalanceByAddress", "rawAccountWithCurrencyBalanceByPublicKey",
     "accountsByCurrencyBalanceFrom", "accountsByCurrencyBalanceSince",
     "rawAccountWithHarvestBalanceByAddress", "rawAccountWithHarvestBalanceByPublicKey",
     "accountsByHarvestBalanceFrom", "accountsByHarvestBalanceSince",
     "rawAccountWithXemBalanceByAddress", "rawAccountWithXemBalanceByPublicKey",
     "accountsByXemBalanceFrom", "accountsByXemBalanceSince",
     "rawTransactionByHash", "rawTransactionById",
     "transactionsByTypeWithFilterFrom", "transactionsByTypeWithFilterSince"}

\* database[name] is a function
MethodsOf(database) ==
    CASE database = "CatapultDb" -> CatapultDbMethods
      [] database = "MosaicDb" -> MosaicDbMethods
      [] database = "NamespaceDb" -> NamespaceDbMethods

\* The min/max/record argument generators of the constructors.
generateArgs(name, record) ==
    CASE name = "blockMinArgs" -> <<minLong>>
      [] name = "blockMaxArgs" -> <<maxLong>>
      [] name = "blockToArgs" -> <<record["block.height"]>>
      [] name = "transactionMinArgs" -> <<minLong, -1>>
      [] name = "transactionMaxArgs" -> <<maxLong, 0>>
      [] name = "transactionToArgs" -> <<record["meta.height"], record["meta.index"]>>
      [] name = "mosaicMinArgs" -> <<minLong, minObjectId>>
      [] name = "mosaicMaxArgs" -> <<maxLong, maxObjectId>>
      [] name = "mosaicToArgs" -> <<record["mosaic.startHeight"], record["_id"]>>
      [] name = "namespaceMinArgs" -> <<minLong, minObjectId>>
      [] name = "namespaceMaxArgs" -> <<maxLong, maxObjectId>>
      [] name = "namespaceToArgs" -> <<record["namespace.startHeight"], record["_id"]>>
      [] name = "accountMinArgs" -> <<minLong, minLong, minObjectId>>
      [] name = "accountMaxArgs" -> <<maxLong, maxLong, maxObjectId>>
      [] name = "accountImportanceToArgs" ->
            <<record["account.importance"], record["account.publicKeyHeight"], record["_id"]>>
      [] name = "accountHarvestedBlocksToArgs" ->
            <<record["account.harvestedBlocks"], record["account.publicKeyHeight"], record["_id"]>>
      [] name = "accountHarvestedFeesToArgs" ->
            <<record["account.harvestedFees"], record["account.publicKeyHeight"], record["_id"]>>
      [] name = "accountBalanceToArgs" ->
            <<record["account.balance"], record["account.publicKeyHeight"], record["_id"]>>

\* ------------------------------------------------------------- the store
VARIABLES
    family,       \* the Timeline this behaviour is about
    timeline,     \* that Timeline object: its database handle, its bound entries
    collection,   \* the documents of the family's collection
    chainHeight,  \* chainStatistic.current.height
    namespaces,   \* the 'namespaces' collection the balance families read
    multisigs,    \* the 'multisigs' collection the multisig filter joins
    pc,           \* where the request in flight stands
    key,          \* the name of the timeline method called
    args,         \* its arguments after the collection name
    record,       \* what the identifier lookup resolved to
    chainRead,    \* the chain height read by blocksv2From / blocksv2Since
    result,       \* what the timeline method resolved to
    storeOps,     \* the store methods the request has called, in order
    request,      \* the HTTP request, when the call came through a route
    status,       \* the HTTP status answered, 0 while there is none
    response,     \* the response actions and next() calls of the handler, in order
    pages,        \* the earlier pages of the paging sequence in progress
    dirty         \* whether a write happened since the sequence began

vars == <<family, timeline, collection, chainHeight, namespaces, multisigs, pc, key, args, record, chainRead,
          result, storeOps, request, status, response, pages, dirty>>

storeVars == <<family, timeline, collection, chainHeight, namespaces, multisigs>>
callVars == <<pc, key, args, record, chainRead, result, storeOps, request, status, response, pages>>

Doc2(p1, v1, p2, v2) == (p1 :> v1) @@ (p2 :> v2)

\* Identifiers of a document are derived from its position of insertion.
HashOf(id) == 10 + id
AddressOf(id) == 20 + id
PublicKeyOf(id) == AddressOf(id) + 10
MosaicIdOf(id) == 40 + id

NextId == Cardinality(collection) + 1

Block(h) == Doc2("_id", h, "block.height", h) @@ ("meta.hash" :> HashOf(h))

Transaction(id, height, index, type) ==
    Doc2("_id", id, "meta.height", height) @@ Doc2("meta.index", index, "meta.hash", HashOf(id))
    @@ ("transaction.type" :> type)

EmbeddedTransaction(id, parent, index) ==
    Doc2("_id", id, "meta.height", parent["meta.height"])
    @@ Doc2("meta.index", index, "meta.aggregateId", parent["_id"])
    @@ ("transaction.type" :> "transfer")

Mosaic(id, startHeight) ==
    Doc2("_id", id, "mosaic.startHeight", startHeight) @@ ("mosaic.id" :> MosaicIdOf(id))

Namespace(id, startHeight, namespaceId, active) ==
    Doc2("_id", id, "namespace.startHeight", startHeight)
    @@ Doc2("namespace.level0", namespaceId, "namespace.depth", 1)
    @@ ("meta.active" :> active)

\* The namespace a balance family resolves its mosaic from.
WellKnownId(f) ==
    CASE f = "accountByCurrencyBalanceTimeline" -> CURRENCY_ID
      [] f = "accountByHarvestBalanceTimeline" -> HARVEST_ID
      [] f = "accountByXemBalanceTimeline" -> XEM_ID
WellKnownNamespace(f, hasAlias) ==
    IF hasAlias THEN Namespace(1, 1, WellKnownId(f), TRUE) @@ ("namespace.alias.mosaicId" :> 1)
    ELSE Namespace(1, 1, WellKnownId(f), TRUE)

Account(id, publicKeyHeight, importances, activityBuckets, mosaics) ==
    Doc2("_id", id, "account.address", AddressOf(id))
    @@ Doc2("account.publicKey", PublicKeyOf(id), "account.publicKeyHeight", publicKeyHeight)
    @@ Doc2("account.importances", importances, "account.activityBuckets", activityBuckets)
    @@ ("account.mosaics" :> mosaics)

TransactionTypes == {"transfer", "aggregateComplete"}

\* A transfer as the with-filter pipeline reads it: the mosaics it moves and
\* the addresses it involves.
Transfer(id, height, index, mosaics, addresses) ==
    Transaction(id, height, index, "transfer")
    @@ Doc2("transaction.mosaics", mosaics, "meta.addresses", addresses)

Multisig(address) == Doc2("_id", 1, "multisig.accountAddress", address)

\* Transfers of the network currency alone or with another mosaic, between
\* plain accounts or involving the multisig account.
TransferChoices ==
    {<<<<[id |-> CURRENCY_ID, amount |-> 1]>>, {AddressOf(2)}>>,
     <<<<[id |-> CURRENCY_ID, amount |-> 1], [id |-> 1, amount |-> 1]>>, {AddressOf(2)}>>,
     <<<<[id |-> HARVEST_ID, amount |-> 1]>>, {AddressOf(1), AddressOf(2)}>>}
ImportanceChoices == {<<>>, <<[value |-> 2, height |-> 1], [value |-> 1, height |-> 2]>>}
BucketChoices ==
    IF family = "accountByHarvestedFeesTimeline"
      THEN {<<>>, <<[totalFeesPaid |-> 1]>>, <<[totalFeesPaid |-> 0], [totalFeesPaid |-> 1]>>}
      ELSE {<<>>, <<[totalFeesPaid |-> 1]>>}
MosaicChoices == {<<>>, <<[id |-> 2, amount |-> 2], [id |-> 1, amount |-> 1]>>}

NoCall ==
    /\ pc = "idle" /\ key = "" /\ args = <<>> /\ record = Undefined /\ chainRead = 0
    /\ result = Undefined /\ storeOps = <<>>
    /\ request = <<>> /\ status = 0 /\ response = <<>> /\ pages = <<>>

Init ==
    /\ family \in Families
    /\ timeline = [database |-> DatabaseOf(family), entries |-> TimelineOf(family)]
    /\ collection = IF family = "blockTimeline" THEN {Block(1)} ELSE {}
    /\ chainHeight = IF family = "blockTimeline" THEN 1 ELSE 0
    /\ namespaces \in IF family \in BalanceFamilies
                        THEN {{}, {WellKnownNamespace(family, FALSE)}, {WellKnownNamespace(family, TRUE)}}
                        ELSE {{}}
    /\ multisigs = {}
    /\ NoCall
    /\ dirty = FALSE

\* ---------------------------------------------------------------- writes
\* No request pending, or one in flight, or a paging client between pages.
Settled == pc \in {"done", "redirected", "rejected", "thrown", "failed"}

Write(docs) ==
    /\ Cardinality(collection) < MaxDocs
    /\ ~Settled \/ (pc = "done" /\ request = <<>>)
    /\ collection' = docs
    /\ dirty' = (pc # "idle")
    /\ UNCHANGED <<family, timeline, namespaces, multisigs>>
    /\ UNCHANGED callVars

AppendBlock ==
    /\ family = "blockTimeline"
    /\ chainHeight' = chainHeight + 1
    /\ Write(collection \cup {Block(chainHeight + 1)})

InsertTransaction ==
    /\ family \in {"transactionTimeline", "transactionByTypeTimeline"}
    /\ UNCHANGED chainHeight
    /\ \/ \E height \in 1..MaxHeight, type \in TransactionTypes :
            LET index == Cardinality({d \in collection :
                             ~Has(d, "meta.aggregateId") /\ d["meta.height"] = height})
            IN Write(collection \cup {Transaction(NextId, height, index, type)})
       \/ \E parent \in {d \in collection : ~Has(d, "meta.aggregateId") /\ isAggregateType(d)} :
            LET siblings == {d \in collection : OpEq(d, "meta.aggregateId", parent["_id"])}
            IN Write(collection \cup {EmbeddedTransaction(NextId, parent, Cardinality(siblings))})

\* Transactions as the with-filter family reads them.
InsertTransfer ==
    /\ family = "transactionByTypeWithFilterTimeline"
    /\ UNCHANGED chainHeight
    /\ \E height \in 1..MaxHeight :
         LET index == Cardinality({d \in collection : d["meta.height"] = height})
         IN \/ \E c \in TransferChoices :
                 Write(collection \cup {Transfer(NextId, height, index, c[1], c[2])})
            \/ Write(collection \cup {Transaction(NextId, height, index, "aggregateComplete")})

InsertMosaic ==
    /\ family = "mosaicTimeline"
    /\ UNCHANGED chainHeight
    /\ \E startHeight \in 1..MaxHeight : Write(collection \cup {Mosaic(NextId, startHeight)})

\* Registering a namespace id again deactivates the documents that held it.
InsertNamespace ==
    /\ family = "namespaceTimeline"
    /\ UNCHANGED chainHeight
    /\ \E startHeight \in 1..MaxHeight, namespaceId \in {31, 32} :
         Write({IF d["namespace.level0"] = namespaceId THEN [d EXCEPT !["meta.active"] = FALSE] ELSE d
                   : d \in collection}
               \cup {Namespace(NextId, startHeight, namespaceId, TRUE)})

\* The namespace id of a document: its level at index depth - 1.
NamespaceIdOf(d) ==
    d[<<"namespace.level0", "namespace.level1", "namespace.level2">>[d["namespace.depth"]]]

\* The paths of sub-namespaces, from the root down.
NamespacePaths == {<<31, 32>>, <<32, 31>>, <<31, 31, 32>>}

\* A sub-namespace is registered, or registered again.
InsertChildNamespace ==
    /\ family = "namespaceTimeline"
    /\ UNCHANGED chainHeight
    /\ \E startHeight \in 1..MaxHeight, path \in NamespacePaths :
         LET levels == [i \in 1..Len(path) |->
                           <<"namespace.level0", "namespace.level1", "namespace.level2">>[i]]
             doc == Doc2("_id", NextId, "namespace.startHeight", startHeight)
                    @@ [p \in {levels[i] : i \in 1..Len(path)} |->
                           path[CHOOSE i \in 1..Len(path) : levels[i] = p]]
                    @@ Doc2("namespace.depth", Len(path), "meta.active", TRUE)
         IN Write({IF NamespaceIdOf(d) = path[Len(path)] THEN [d EXCEPT !["meta.active"] = FALSE] ELSE d
                      : d \in collection} \cup {doc})

InsertAccount ==
    /\ family \in AccountFamilies
    /\ UNCHANGED chainHeight
    /\ \E publicKeyHeight \in 0..1 :
         \/ /\ family = "accountByImportanceTimeline"
            /\ \E importances \in ImportanceChoices :
                 Write(collection \cup {Account(NextId, publicKeyHeight, importances, <<>>, <<>>)})
         \/ /\ family \in {"accountByHarvestedBlocksTimeline", "accountByHarvestedFeesTimeline"}
            /\ \E activityBuckets \in BucketChoices :
                 Write(collection \cup {Account(NextId, publicKeyHeight, <<>>, activityBuckets, <<>>)})
         \/ /\ family \in BalanceFamilies
            /\ \E mosaics \in MosaicChoices :
                 Write(collection \cup {Account(NextId, publicKeyHeight, <<>>, <<>>, mosaics)})

\* The chain grows: what the ingester appends for a new block carries keys
\* above every key stored, and leaves the stored documents as they are.
TimeSortedFamilies == {"blockTimeline", "transactionTimeline", "transactionByTypeTimeline",
                       "mosaicTimeline", "namespaceTimeline"}

TopHeight(path) ==
    IF collection = {} THEN 1
    ELSE CHOOSE h \in 1..MaxHeight :
           /\ \E d \in collection : d[path] = h
           /\ \A d \in collection : d[path] <= h

\* The transactions of the newest block, and the inner transactions of the
\* newest aggregate.
AppendTransaction ==
    /\ family \in TransactionFamilies
    /\ UNCHANGED chainHeight
    /\ LET top == {d \in collection : ~Has(d, "meta.aggregateId")}
       IN \/ \E height \in TopHeight("meta.height")..MaxHeight, type \in TransactionTypes :
               LET index == Cardinality({d \in top : d["meta.height"] = height})
               IN Write(collection \cup {Transaction(NextId, height, index, type)})
          \/ \E parent \in {d \in top : isAggregateType(d) /\ \A e \in top : e["_id"] <= d["_id"]} :
               LET siblings == {d \in collection : OpEq(d, "meta.aggregateId", parent["_id"])}
               IN Write(collection \cup {EmbeddedTransaction(NextId, parent, Cardinality(siblings))})

AppendMosaic ==
    /\ family = "mosaicTimeline"
    /\ UNCHANGED chainHeight
    /\ \E startHeight \in TopHeight("mosaic.startHeight")..MaxHeight :
         Write(collection \cup {Mosaic(NextId, startHeight)})

\* A namespace id registered for the first time.
AppendNamespace ==
    /\ family = "namespaceTimeline"
    /\ UNCHANGED chainHeight
    /\ \E startHeight \in TopHeight("namespace.startHeight")..MaxHeight,
          namespaceId \in {31, 32, 33} \ {d["namespace.level0"] : d \in collection} :
         Write(collection \cup {Namespace(NextId, startHeight, namespaceId, TRUE)})

\* ---------------------------------------------------- database[methodName]
Last(s) == s[Len(s)]

\* database[idMethodName](collectionName, id)
Lookup(idMethodName, docs, nsDocs, id) ==
    CASE idMethodName = "rawBlockByHash" -> rawBlockByHash(docs, id)
      [] idMethodName = "rawBlockByHeight" -> rawBlockByHeight(docs, id)
      [] idMethodName = "rawTransactionByHash" -> rawTransactionByHash(docs, id)
      [] idMethodName = "rawTransactionById" -> rawTransactionById(docs, id)
      [] idMethodName = "rawMosaicById" -> rawMosaicById(docs, id)
      [] idMethodName = "rawNamespaceById" -> rawNamespaceById(docs, id)
      [] idMethodName = "rawNamespaceByObjectId" -> rawNamespaceByObjectId(docs, id)
      [] idMethodName = "rawAccountWithImportanceByAddress" -> rawAccountWithImportanceByAddress(docs, id)
      [] idMethodName = "rawAccountWithImportanceByPublicKey" -> rawAccountWithImportanceByPublicKey(docs, id)
      [] idMethodName = "rawAccountWithHarvestedBlocksByAddress" ->
            rawAccountWithHarvestedBlocksByAddress(docs, id)
      [] idMethodName = "rawAccountWithHarvestedBlocksByPublicKey" ->
            rawAccountWithHarvestedBlocksByPublicKey(docs, id)
      [] idMethodName = "rawAccountWithHarvestedFeesByAddress" ->
            rawAccountWithHarvestedFeesByAddress(docs, id)
      [] idMethodName = "rawAccountWithHarvestedFeesByPublicKey" ->
            rawAccountWithHarvestedFeesByPublicKey(docs, id)
      [] idMethodName = "rawAccountWithCurrencyBalanceByAddress" ->
            rawAccountWithBalanceByAddress(docs, networkCurrencyMosaic(nsDocs), id)
      [] idMethodName = "rawAccountWithCurrencyBalanceByPublicKey" ->
            rawAccountWithBalanceByAddress(docs, networkCurrencyMosaic(nsDocs), publicKeyToAddress(id))
      [] idMethodName = "rawAccountWithHarvestBalanceByAddress" ->
            rawAccountWithBalanceByAddress(docs, networkHarvestMosaic(nsDocs), id)
      [] idMethodName = "rawAccountWithHarvestBalanceByPublicKey" ->
            rawAccountWithBalanceByAddress(docs, networkHarvestMosaic(nsDocs), publicKeyToAddress(id))
      [] idMethodName = "rawAccountWithXemBalanceByAddress" ->
            rawAccountWithBalanceByAddress(docs, networkXemMosaic(nsDocs), id)
      [] idMethodName = "rawAccountWithXemBalanceByPublicKey" ->
            rawAccountWithBalanceByAddress(docs, networkXemMosaic(nsDocs), publicKeyToAddress(id))

\* database[methodName](collectionName, ...a); for blocks [height] is the
\* chain height the method read first, for transactions the page is the one
\* addAggregateTransactions has yet to complete.
RangeMethod(methodName, docs, nsDocs, height, a) ==
    CASE methodName = "blocksv2From" -> Resolved(blocksv2From(docs, height, a[1], a[2]))
      [] methodName = "blocksv2Since" -> Resolved(blocksv2Since(docs, height, a[1], a[2]))
      [] methodName = "transactionsFrom" -> Resolved(transactionsFrom(docs, a[1], a[2], a[3]))
      [] methodName = "transactionsSince" -> Resolved(transactionsSince(docs, a[1], a[2], a[3]))
      [] methodName = "transactionsByTypeFrom" ->
            Resolved(transactionsByTypeFrom(docs, a[1], a[2], a[3], a[4]))
      [] methodName = "transactionsByTypeSince" ->
            Resolved(transactionsByTypeSince(docs, a[1], a[2], a[3], a[4]))
      [] methodName = "transactionsByTypeWithFilterFrom" ->
            transactionsByTypeWithFilterFrom(docs, multisigs, a[1], a[2], a[3], a[4], a[5])
      [] methodName = "transactionsByTypeWithFilterSince" ->
            transactionsByTypeWithFilterSince(docs, multisigs, a[1], a[2], a[3], a[4], a[5])
      [] methodName = "mosaicsFrom" -> Resolved(mosaicsFrom(docs, a[1], a[2], a[3]))
      [] methodName = "mosaicsSince" -> Resolved(mosaicsSince(docs, a[1], a[2], a[3]))
      [] methodName = "namespacesFrom" -> Resolved(namespacesFrom(docs, a[1], a[2], a[3]))
      [] methodName = "namespacesSince" -> Resolved(namespacesSince(docs, a[1], a[2], a[3]))
      [] methodName = "accountsByImportanceFrom" ->
            Resolved(accountsByImportanceFrom(docs, a[1], a[2], a[3], a[4]))
      [] methodName = "accountsByImportanceSince" ->
            Resolved(accountsByImportanceSince(docs, a[1], a[2], a[3], a[4]))
      [] methodName = "accountsByHarvestedBlocksFrom" ->
            Resolved(accountsByHarvestedBlocksFrom(docs, a[1], a[2], a[3], a[4]))
      [] methodName = "accountsByHarvestedBlocksSince" ->
            Resolved(accountsByHarvestedBlocksSince(docs, a[1], a[2], a[3], a[4]))
      [] methodName = "accountsByHarvestedFeesFrom" ->
            Resolved(accountsByHarvestedFeesFrom(docs, a[1], a[2], a[3], a[4]))
      [] methodName = "accountsByHarvestedFeesSince" ->
            Resolved(accountsByHarvestedFeesSince(docs, a[1], a[2], a[3], a[4]))
      [] methodName = "accountsByCurrencyBalanceFrom" ->
            accountsByBalanceFrom(docs, networkCurrencyMosaic(nsDocs), a[1], a[2], a[3], a[4])
      [] methodName = "accountsByCurrencyBalanceSince" ->
            accountsByBalanceSince(docs, networkCurrencyMosaic(nsDocs), a[1], a[2], a[3], a[4])
      [] methodName = "accountsByHarvestBalanceFrom" ->
            accountsByBalanceFrom(docs, networkHarvestMosaic(nsDocs), a[1], a[2], a[3], a[4])
      [] methodName = "accountsByHarvestBalanceSince" ->
            accountsByBalanceSince(docs, networkHarvestMosaic(nsDocs), a[1], a[2], a[3], a[4])
      [] methodName = "accountsByXemBalanceFrom" ->
            accountsByBalanceFrom(docs, networkXemMosaic(nsDocs), a[1], a[2], a[3], a[4])
      [] methodName = "accountsByXemBalanceSince" ->
            accountsByBalanceSince(docs, networkXemMosaic(nsDocs), a[1], a[2], a[3], a[4])

\* --------------------------------------------------- the request in flight
Entry == timeline.entries[key]

\* queryAndSendTimeline without the test for undefined
queryAndSendTimelineWithoutNotFound(data, routed) ==
    /\ pc' = "done"
    /\ result' = data
    /\ status' = IF ~routed THEN 0 ELSE 200
    /\ response' = IF ~routed THEN <<>> ELSE <<"send", "next">>

\* queryAndSendTimeline sending the not-found error without calling next()
queryAndSendTimelineWithoutNext(data, routed) ==
    /\ pc' = "done"
    /\ result' = data
    /\ status' = IF ~routed THEN 0 ELSE IF data.kind = "undefined" THEN 404 ELSE 200
    /\ response' = IF ~routed THEN <<>>
                   ELSE IF data.kind = "undefined" THEN <<"send">> ELSE <<"send", "next">>

\* The promise of the timeline method settles; a route answers on it.
\* queryAndSendTimeline: undefined is answered 404, an array 200.
queryAndSendTimeline(data, routed) ==
    /\ pc' = "done"
    /\ result' = data
    /\ status' = IF ~routed THEN 0 ELSE IF data.kind = "undefined" THEN 404 ELSE 200
    /\ response' = IF ~routed THEN <<>> ELSE <<"send", "next">>

Routed == request # <<>>

\* Timeline.absolute / Timeline.record reach database[methodName]
EnterRange ==
    /\ pc' = IF family = "blockTimeline" THEN "chain" ELSE "range"
    /\ status' = 0 /\ response' = <<>>
    /\ UNCHANGED result

\* this[key](collectionName, ...args) up to the first store operation
Dispatch(k, a, routed) ==
    LET entry == timeline.entries[k]
    IN /\ key' = k
       /\ args' = a
       /\ record' = Undefined /\ chainRead' = 0 /\ storeOps' = <<>>
       /\ CASE entry.type = "empty" -> queryAndSendTimeline(Resolved(<<>>), routed)
            [] entry.type = "absolute" ->
                 IF Last(a) = 0 THEN queryAndSendTimeline(Resolved(<<>>), routed) ELSE EnterRange
            [] entry.type = "identifier" -> pc' = "lookup" /\ status' = 0 /\ response' = <<>> /\ UNCHANGED result

\* The identifiers a caller may name, by the kind of key.
IdValues(keyName) ==
    CASE keyName = "Hash" -> {HashOf(i) : i \in 1..MaxDocs}
      [] keyName = "Height" -> 1..MaxDocs
      [] keyName = "ObjectId" -> 1..MaxDocs
      [] keyName = "Address" -> {AddressOf(i) : i \in 1..MaxDocs}
      [] keyName = "PublicKey" -> {PublicKeyOf(i) : i \in 1..MaxDocs}
      [] keyName = "Id" ->
           IF family = "mosaicTimeline" THEN {MosaicIdOf(i) : i \in 1..MaxDocs}
           ELSE IF family = "namespaceTimeline" THEN {31, 32}
           ELSE 1..MaxDocs

KeyNameOf(k) ==
    CHOOSE n \in {"Hash", "Height", "Id", "ObjectId", "Address", "PublicKey"} :
        k \in {"from" \o n, "since" \o n}

\* Rest arguments between the identifier and the count.
FilterTypes == {"mosaic", "multisig", "other"}
MiddleArgs ==
    IF family = "transactionByTypeTimeline" THEN {<<t>> : t \in TransactionTypes}
    ELSE IF family = "transactionByTypeWithFilterTimeline"
      THEN {<<t, f>> : t \in TransactionTypes, f \in FilterTypes}
    ELSE {<<>>}

ArgLists(k) ==
    LET tails == {m \o <<count>> : m \in MiddleArgs, count \in 0..MaxCount}
    IN IF timeline.entries[k].type = "identifier"
         THEN {<<id>> \o t : id \in IdValues(KeyNameOf(k)), t \in tails}
         ELSE tails

\* A caller invokes a timeline method.
CallTimeline ==
    /\ pc = "idle"
    /\ \E k \in DOMAIN timeline.entries : \E a \in ArgLists(k) : Dispatch(k, a, FALSE)
    /\ request' = <<>>
    /\ pages' = <<>>
    /\ dirty' = FALSE
    /\ UNCHANGED storeVars

\* A caller invokes database.blocksv2From / blocksv2Since itself, with any
\* height; a count of 0 resolves at once.
Heights == (0..(MaxDocs + 2)) \cup {maxLong}
CallBlocksv2 ==
    /\ pc = "idle"
    /\ family = "blockTimeline"
    /\ \E methodName \in {"blocksv2From", "blocksv2Since"}, height \in Heights, count \in 0..MaxCount :
         /\ key' = methodName
         /\ args' = <<height, count>>
         /\ IF count = 0
              THEN pc' = "done" /\ result' = Resolved(<<>>)
              ELSE pc' = "chain" /\ UNCHANGED result
    /\ record' = Undefined /\ chainRead' = 0 /\ storeOps' = <<>> /\ status' = 0 /\ response' = <<>>
    /\ request' = <<>>
    /\ pages' = <<>>
    /\ dirty' = FALSE
    /\ UNCHANGED storeVars

\* ... and, the chain height read, its range query resolves.
Blocksv2Query ==
    /\ pc = "range"
    /\ key \in {"blocksv2From", "blocksv2Since"}
    /\ result' = RangeMethod(key, collection, namespaces, chainRead, args)
    /\ storeOps' = Append(storeOps, key)
    /\ pc' = "done"
    /\ UNCHANGED <<key, args, record, chainRead, request, status, response, pages, dirty>>
    /\ UNCHANGED storeVars

\* Timeline.identifier keeping the record on the bound entry, not on the
\* object made for the call
IdLookupKeepingRecord ==
    /\ pc = "lookup"
    /\ LET found == Lookup(Entry.idMethodName, collection, namespaces, args[1])
           kept == [f \in DOMAIN Entry \cup {"record"} |-> IF f = "record" THEN found ELSE Entry[f]]
       IN /\ record' = found
          /\ timeline' = [timeline EXCEPT !.entries[key] = kept]
          /\ storeOps' = Append(storeOps, Entry.idMethodName)
          /\ IF found.kind = "undefined" THEN queryAndSendTimeline(Undefined, Routed)
             ELSE IF Last(args) = 0 THEN queryAndSendTimeline(Resolved(<<>>), Routed)
             ELSE EnterRange
    /\ UNCHANGED <<key, args, chainRead, request, pages, dirty>>
    /\ UNCHANGED <<family, collection, chainHeight, namespaces, multisigs>>

\* Timeline.identifier: the lookup resolves, then Timeline.record
IdLookup ==
    /\ pc = "lookup"
    /\ LET found == Lookup(Entry.idMethodName, collection, namespaces, args[1])
       IN /\ record' = found
          /\ storeOps' = Append(storeOps, Entry.idMethodName)
          /\ IF found.kind = "undefined" THEN queryAndSendTimeline(Undefined, Routed)
             ELSE IF Last(args) = 0 THEN queryAndSendTimeline(Resolved(<<>>), Routed)
             ELSE EnterRange
    /\ UNCHANGED <<key, args, chainRead, request, pages, dirty>>
    /\ UNCHANGED storeVars

\* blocksv2From / blocksv2Since: chainStatisticCurrent() resolves
ChainRead ==
    /\ pc = "chain"
    /\ chainRead' = chainHeight
    /\ pc' = "range"
    /\ UNCHANGED <<key, args, record, result, storeOps, request, status, response, pages, dirty>>
    /\ UNCHANGED storeVars

RangeArgs ==
    IF Entry.type = "absolute" THEN generateArgs(Entry.generateArgs, <<>>) \o args
    ELSE generateArgs(Entry.generateArgs, record.docs[1]) \o Tail(args)

\* database[methodName] resolves its query
RangeQuery ==
    /\ pc = "range"
    /\ LET page == RangeMethod(Entry.methodName, collection, namespaces, chainRead, RangeArgs)
       IN /\ storeOps' = Append(storeOps, Entry.methodName)
          /\ IF page.kind = "thrown"
               THEN pc' = "thrown" /\ result' = page /\ UNCHANGED <<status, response>>
             ELSE IF family \in TransactionFamilies
               THEN pc' = "attach" /\ result' = page /\ UNCHANGED <<status, response>>
               ELSE queryAndSendTimeline(page, Routed)
    /\ UNCHANGED <<key, args, record, chainRead, request, pages, dirty>>
    /\ UNCHANGED storeVars

\* Attach on documents the request before it already completed:
\* addAggregateTransaction pushes the inner transactions onto them again.
AttachOntoShared ==
    /\ pc = "attach"
    /\ LET page == addAggregateTransactions(collection, result.docs)
           pushed == [i \in 1..Len(page) |->
                        IF pages # <<>> /\ Has(page[i], "transaction.transactions")
                          THEN AddField(page[i], "transaction.transactions",
                                   page[i]["transaction.transactions"] \o page[i]["transaction.transactions"])
                          ELSE page[i]]
       IN queryAndSendTimeline(Resolved(pushed), Routed)
    /\ storeOps' = IF extractAggregateIds(result.docs) = {} THEN storeOps
                   ELSE Append(storeOps, "queryAggregateTransactions")
    /\ UNCHANGED <<key, args, record, chainRead, request, pages, dirty>>
    /\ UNCHANGED storeVars

\* sortedTransactions: addAggregateTransactions resolves; it queries the
\* store when the page has a transaction of aggregate type.
Attach ==
    /\ pc = "attach"
    /\ queryAndSendTimeline(Resolved(addAggregateTransactions(collection, result.docs)), Routed)
    /\ storeOps' = IF extractAggregateIds(result.docs) = {} THEN storeOps
                   ELSE Append(storeOps, "queryAggregateTransactions")
    /\ UNCHANGED <<key, args, record, chainRead, request, pages, dirty>>
    /\ UNCHANGED storeVars

\* The store operation the request is waiting for.
PendingOp ==
    CASE pc = "lookup" -> Entry.idMethodName
      [] pc = "chain" -> "chainStatisticCurrent"
      [] pc = "range" -> Entry.methodName
      [] pc = "attach" -> "queryAggregateTransactions"

\* The store operation rejects (the connection is lost, the query times
\* out). No method of the database or the timeline catches: the promise of
\* the timeline method rejects, and queryAndSendTimeline has registered a
\* .then on it and nothing else, so no response is sent and next() is not
\* called.
StoreFailure ==
    /\ pc \in {"lookup", "chain", "range", "attach"}
    /\ pc = "attach" => extractAggregateIds(result.docs) # {}
    /\ storeOps' = Append(storeOps, PendingOp)
    /\ pc' = "failed"
    /\ result' = Rejected
    /\ UNCHANGED <<key, args, record, chainRead, request, status, response, pages, dirty>>
    /\ UNCHANGED storeVars

\* ------------------------------------------------------------- routes
\* A path segment, by what the validators and parsers look at: a keyword
\* text, or a length, an alphabet and the value the characters encode.
\*   "dec": decimal digits only; "hex": hexadecimal digits, a letter among
\*   them; "b32": base32 characters, one outside the hexadecimal digits;
\*   "other": a character outside all three alphabets.
Keyword(text) == [text |-> text, len |-> Len(text), alphabet |-> "other", value |-> 0]
Encoded(len, alphabet, value) == [text |-> "", len |-> len, alphabet |-> alphabet, value |-> value]

isHexString(str) == str.alphabet \in {"dec", "hex"}

\* constants.sizes; the literal names addressEncoded twice, 39 and then 40,
\* and the later value is the one the object holds.
sizes ==
    [hexPublicKey |-> 64, addressEncoded |-> 40, hexAddress |-> 50, hexHash256 |-> 64, hash256 |-> 32,
     hexObjectId |-> 24, hexNamespaceId |-> 16, hexMosaicId |-> 16]

namedValidatorMap(validator, str) ==
    CASE validator = "objectId" -> sizes.hexObjectId = str.len /\ isHexString(str)
      [] validator = "namespaceId" -> sizes.hexNamespaceId = str.len /\ isHexString(str)
      [] validator = "mosaicId" -> sizes.hexMosaicId = str.len /\ isHexString(str)
      [] validator = "integer" -> str.len >= 1 /\ str.alphabet = "dec"
      [] validator = "address" -> sizes.addressEncoded = str.len \/ sizes.hexAddress = str.len
      [] validator = "publicKey" -> sizes.hexPublicKey = str.len
      [] validator = "hash256" -> sizes.hexHash256 = str.len
      [] validator = "earliest" -> str.text = "earliest" \/ str.text = "min"
      [] validator = "latest" -> str.text = "latest" \/ str.text = "max"
      [] validator = "least" -> str.text = "least" \/ str.text = "min"
      [] validator = "most" -> str.text = "most" \/ str.text = "max"
      [] validator = "duration" -> str.text = "from" \/ str.text = "since"
      [] validator = "transferFilterType" -> str.text = "mosaic" \/ str.text = "multisig"

validateValue(value, validator) == namedValidatorMap(validator, value)

\* What a parser does: return a value, or throw an Error.
Returns(v) == [thrown |-> FALSE, value |-> v]
Throws == [thrown |-> TRUE, value |-> 0]

\* convert.hexToUint8: the bytes of a hexadecimal string
hexToUint8(str) == IF isHexString(str) THEN Returns(str.value) ELSE Throws

\* address.stringToAddress: the bytes of a base32 address
stringToAddress(str) == IF str.alphabet = "b32" THEN Returns(str.value) ELSE Throws

\* Long.fromString(input), the low and high words of the 64-bit result
uint64FromString(input) == Returns(input.value % Pow2(LongBits))

namedParserMap(parser, str) ==
    CASE parser = "objectId" ->
            IF sizes.hexObjectId = str.len /\ isHexString(str) THEN Returns(str.value) ELSE Throws
      [] parser = "namespaceId" ->
            IF namedValidatorMap("namespaceId", str) THEN Returns(str.value) ELSE Throws
      [] parser = "mosaicId" ->
            IF namedValidatorMap("mosaicId", str) THEN Returns(str.value) ELSE Throws
      [] parser = "uint64" -> uint64FromString(str)
      [] parser = "address" ->
            IF sizes.addressEncoded = str.len THEN stringToAddress(str)
            ELSE IF sizes.hexAddress = str.len THEN hexToUint8(str)
            ELSE Throws
      [] parser = "publicKey" -> IF sizes.hexPublicKey = str.len THEN hexToUint8(str) ELSE Throws
      [] parser = "hash256" -> IF 2 * sizes.hash256 = str.len THEN hexToUint8(str) ELSE Throws
      [] parser = "transactionType" ->
            IF str.text \in TransactionTypes THEN Returns(str.text) ELSE Throws
      [] parser = "transferFilterType" ->
            IF namedValidatorMap("transferFilterType", str) THEN Returns(str.text) ELSE Throws
      \* the map has no such parser: calling undefined throws a TypeError
      [] OTHER -> Throws

parseValue(str, parser) == namedParserMap(parser, str)

\* services.config.countRange with a preset below its minimum
countRangePresetBelowMin == [min |-> 1, max |-> MaxCount, preset |-> 0]

\* services.config.countRange
countRange == [min |-> 1, max |-> MaxCount, preset |-> 1]

\* parseRangeValue without the test against range.max
parseRangeValueNoMax(value, range) ==
    IF value < range.min THEN [defined |-> FALSE, value |-> 0]
    ELSE [defined |-> TRUE, value |-> value]

\* parseRangeValue on a limit that parsed as the number [value]: the value,
\* or undefined outside the range
parseRangeValue(value, range) ==
    IF value < range.min \/ value > range.max THEN [defined |-> FALSE, value |-> 0]
    ELSE [defined |-> TRUE, value |-> value]

\* The if / else-if chain of each get<Family>Timeline: the validator tried,
\* the suffix of the method it selects and the parser of the identifier.
Sentinel(validator, suffix) == [validator |-> validator, suffix |-> suffix, parser |-> ""]
Identifier(validator, suffix, parser) == [validator |-> validator, suffix |-> suffix, parser |-> parser]

\* getAccountTimeline testing the keywords of the time-sorted families
getAccountTimelineTimeKeywords ==
    <<Sentinel("earliest", "Min"), Sentinel("latest", "Max"),
      Identifier("address", "Address", "address"), Identifier("publicKey", "PublicKey", "publicKey")>>

getAccountTimeline ==
    <<Sentinel("least", "Min"), Sentinel("most", "Max"),
      Identifier("address", "Address", "address"), Identifier("publicKey", "PublicKey", "publicKey")>>
getBlockTimeline ==
    <<Sentinel("earliest", "Min"), Sentinel("latest", "Max"),
      Identifier("hash256", "Hash", "hash256"), Identifier("integer", "Height", "uint64")>>
getMosaicTimeline ==
    <<Sentinel("earliest", "Min"), Sentinel("latest", "Max"), Identifier("mosaicId", "Id", "mosaicId")>>
getNamespaceTimeline ==
    <<Sentinel("earliest", "Min"), Sentinel("latest", "Max"),
      Identifier("namespaceId", "Id", "namespaceId"), Identifier("objectId", "ObjectId", "objectId")>>
getTransactionTimeline ==
    <<Sentinel("earliest", "Min"), Sentinel("latest", "Max"),
      Identifier("objectId", "Id", "objectId"), Identifier("hash256", "Hash", "hash256")>>
getTransactionByTypeTimeline == getTransactionTimeline
getTransactionByTypeWithFilterTimeline == getTransactionTimeline

HandlerOf(f) ==
    CASE f = "blockTimeline" -> getBlockTimeline
      [] f = "transactionTimeline" -> getTransactionTimeline
      [] f = "transactionByTypeTimeline" -> getTransactionByTypeTimeline
      [] f = "transactionByTypeWithFilterTimeline" -> getTransactionByTypeWithFilterTimeline
      [] f = "mosaicTimeline" -> getMosaicTimeline
      [] f = "namespaceTimeline" -> getNamespaceTimeline
      [] f \in AccountFamilies -> getAccountTimeline

\* The branches of the chain that accept the anchor; the first one is taken.
Accepting(chain, anchor) == {i \in 1..Len(chain) : validateValue(anchor, chain[i].validator)}


\* The path segments a client may send as the anchor of a family: the
\* keywords, every identifier of the family well formed, and for every kind
\* of identifier one of the right length with a character outside its
\* alphabet and one a character too long.
Shapes(f) ==
    CASE f = "blockTimeline" -> {<<"Hash", 64, "hex">>, <<"Height", 1, "dec">>}
      [] f \in TransactionFamilies -> {<<"Id", 24, "hex">>, <<"Hash", 64, "hex">>}
      [] f = "mosaicTimeline" -> {<<"Id", 16, "hex">>}
      [] f = "namespaceTimeline" -> {<<"Id", 16, "hex">>, <<"ObjectId", 24, "hex">>}
      [] f \in AccountFamilies ->
            {<<"Address", 39, "b32">>, <<"Address", 40, "b32">>, <<"Address", 50, "hex">>,
             <<"PublicKey", 64, "hex">>}

Keywords == {"earliest", "latest", "least", "most", "min", "max", "longest"}

Anchors(f) ==
    {Keyword(t) : t \in Keywords}
    \cup UNION {{Encoded(sh[2], sh[3], v) : v \in IdValues(sh[1])} : sh \in Shapes(f)}
    \cup {Encoded(sh[2], "other", 0) : sh \in Shapes(f)}
    \cup {Encoded(sh[2] + 1, sh[3], 0) : sh \in Shapes(f)}

\* parseArgument on the type and filter segments of the with-filter route:
\* the filter parser is named after the type, params.type + 'FilterType'.
parseTypeAndFilter(m) ==
    IF family = "transactionByTypeWithFilterTimeline"
      THEN parseValue(Keyword(m[1]), "transactionType").thrown
           \/ parseValue(Keyword(m[2]), m[1] \o "FilterType").thrown
      ELSE FALSE

\* get<Family>Timeline classifying the anchor before it checks the limit
getTimelineAnchorFirst(duration, anchor, n, m) ==
    LET limit == parseRangeValue(n, countRange)
        chain == HandlerOf(family)
        accepting == Accepting(chain, anchor)
        branch == chain[CHOOSE i \in accepting : \A j \in accepting : i <= j]
        parsed == parseValue(anchor, branch.parser)
    IN IF accepting = {}
         THEN /\ pc' = "rejected" /\ status' = 409 /\ response' = <<"send", "next">>
              /\ UNCHANGED <<key, args, record, chainRead, result, storeOps>>
       ELSE IF branch.parser # "" /\ parsed.thrown
         THEN /\ pc' = "thrown" /\ status' = 500 /\ response' = <<>>
              /\ UNCHANGED <<key, args, record, chainRead, result, storeOps>>
       ELSE IF ~limit.defined \/ limit.value = 0
         THEN /\ pc' = "redirected" /\ status' = 302 /\ response' = <<"redirect", "next">>
              /\ UNCHANGED <<key, args, record, chainRead, result, storeOps>>
       ELSE IF branch.parser = ""
         THEN Dispatch(duration \o branch.suffix, m \o <<limit.value>>, TRUE)
       ELSE Dispatch(duration \o branch.suffix, <<parsed.value>> \o m \o <<limit.value>>, TRUE)

\* get<Family>Timeline on a request with a numeric limit, up to the first
\* store operation: the limit check and the redirect, the if / else-if chain
\* on the anchor, then queryAndSendTimeline.
getTimeline(duration, anchor, n, m) ==
    LET limit == parseRangeValue(n, countRange)
        chain == HandlerOf(family)
        accepting == Accepting(chain, anchor)
        branch == chain[CHOOSE i \in accepting : \A j \in accepting : i <= j]
        parsed == parseValue(anchor, branch.parser)
    IN IF parseTypeAndFilter(m)
         THEN /\ pc' = "thrown" /\ status' = 409 /\ response' = <<>>
              /\ UNCHANGED <<key, args, record, chainRead, result, storeOps>>
       ELSE IF ~limit.defined \/ limit.value = 0
         THEN /\ pc' = "redirected" /\ status' = 302 /\ response' = <<"redirect", "next">>
              /\ UNCHANGED <<key, args, record, chainRead, result, storeOps>>
       ELSE IF accepting = {}
         THEN /\ pc' = "rejected" /\ status' = 409 /\ response' = <<"send", "next">>
              /\ UNCHANGED <<key, args, record, chainRead, result, storeOps>>
       ELSE IF branch.parser = ""
         THEN Dispatch(duration \o branch.suffix, m \o <<limit.value>>, TRUE)
       ELSE IF parsed.thrown
         THEN /\ pc' = "thrown" /\ status' = 500 /\ response' = <<>>
              /\ UNCHANGED <<key, args, record, chainRead, result, storeOps>>
       ELSE Dispatch(duration \o branch.suffix, <<parsed.value>> \o m \o <<limit.value>>, TRUE)

\* server.get('/<family>/:duration/:anchor/limit/:limit'): a client sends a
\* request; hops counts the redirects it followed to get to this URL.
RouteRequest ==
    /\ pc = "idle"
    /\ \E duration \in {"from", "since"}, anchor \in Anchors(family), n \in 0..(MaxCount + 1), m \in MiddleArgs :
         /\ request' = [duration |-> duration, anchor |-> anchor, limit |-> n, type |-> m, hops |-> 0]
         /\ getTimeline(duration, anchor, n, m)
    /\ pages' = <<>>
    /\ dirty' = FALSE
    /\ UNCHANGED storeVars

\* The integers a client may write in decimal as the anchor of a blocks
\* request: heights, and the same heights raised by 2^(w-1) and by 2^w.
DecimalAnchors ==
    {h + k : h \in 0..(MaxDocs + 1), k \in {0, Pow2(LongBits - 1), Pow2(LongBits)}}

\* server.get('/blocks/:duration/:block/limit/:limit') on a decimal anchor
RouteDecimal ==
    /\ pc = "idle"
    /\ family = "blockTimeline"
    /\ \E duration \in {"from", "since"}, n \in DecimalAnchors, limit \in 1..MaxCount :
         LET anchor == Encoded(IF n < 10 THEN 1 ELSE 2, "dec", n)
         IN /\ request' = [duration |-> duration, anchor |-> anchor, limit |-> limit,
                           type |-> <<>>, hops |-> 0]
            /\ getTimeline(duration, anchor, limit, <<>>)
    /\ pages' = <<>>
    /\ dirty' = FALSE
    /\ UNCHANGED storeVars

\* redirectUrl(countRange.preset): the URL of the request with its limit
\* replaced by the preset, every other segment as it was.
redirectUrl(req, limit) == [req EXCEPT !.limit = limit, !.hops = @ + 1]

\* The client follows the redirect: the same route handles the new URL.
FollowRedirect ==
    /\ pc = "redirected"
    /\ request.hops < MaxHops
    /\ LET url == redirectUrl(request, countRange.preset)
       IN /\ request' = url
          /\ getTimeline(url.duration, url.anchor, url.limit, url.type)
    /\ UNCHANGED <<pages, dirty>>
    /\ UNCHANGED storeVars

\* The client sends the URL it has just had answered once more, keeping the
\* first payload to compare.
RepeatRequest ==
    /\ pc = "done"
    /\ Routed
    /\ pages = <<>>
    /\ pages' = <<result>>
    /\ getTimeline(request.duration, request.anchor, request.limit, request.type)
    /\ UNCHANGED <<request, dirty>>
    /\ UNCHANGED storeVars

\* ------------------------------------------------------------- paging
FromKeys == {"from" \o n : n \in {"Min", "Max", "Hash", "Height", "Id", "ObjectId", "Address", "PublicKey"}}

\* The key and the identifier a client pages on with a record of a page.
PageKey(f) ==
    CASE f = "blockTimeline" -> "Hash"
      [] f \in TransactionFamilies -> "Id"
      [] f = "mosaicTimeline" -> "Id"
      [] f = "namespaceTimeline" -> "ObjectId"
      [] f \in AccountFamilies -> "Address"
PageId(f, doc) ==
    CASE f = "blockTimeline" -> doc["meta.hash"]
      [] f \in TransactionFamilies -> doc["meta.id"]
      [] f = "mosaicTimeline" -> doc["mosaic.id"]
      [] f = "namespaceTimeline" -> doc["meta.id"]
      [] f \in AccountFamilies -> doc["account.address"]

\* The client asks for the next page: from the lowest record of the page it
\* holds, or since the highest, with the same count.
NextPage ==
    /\ pc = "done"
    /\ request = <<>>
    /\ result.kind = "array" /\ result.docs # <<>>
    /\ Len(pages) < MaxPages - 1
    /\ LET from == key \in FromKeys
           anchor == IF from THEN Last(result.docs) ELSE Head(result.docs)
           rest == IF Entry.type = "identifier" THEN Tail(args) ELSE args
       IN /\ pages' = Append(pages, result.docs)
          /\ Dispatch((IF from THEN "from" ELSE "since") \o PageKey(family),
                      <<PageId(family, anchor)>> \o rest, FALSE)
    /\ UNCHANGED <<request, dirty>>
    /\ UNCHANGED storeVars

\* The caller has its answer; the next request may begin.
Return ==
    /\ Settled
    /\ pc' = "idle" /\ key' = "" /\ args' = <<>> /\ record' = Undefined /\ chainRead' = 0
    /\ result' = Undefined /\ storeOps' = <<>>
    /\ request' = <<>> /\ status' = 0 /\ response' = <<>> /\ pages' = <<>>
    /\ UNCHANGED dirty
    /\ UNCHANGED storeVars

\* Callers of the timeline methods, paging among them.
Next ==
    \/ AppendBlock
    \/ InsertTransaction
    \/ InsertMosaic
    \/ InsertNamespace
    \/ InsertAccount
    \/ CallTimeline
    \/ NextPage
    \/ IdLookup
    \/ ChainRead
    \/ RangeQuery
    \/ Attach
    \/ Return

Spec == Init /\ [][Next]_vars

\* Clients of the routes.
RouteNext ==
    \/ AppendBlock
    \/ InsertTransaction
    \/ InsertMosaic
    \/ InsertNamespace
    \/ InsertAccount
    \/ RouteRequest
    \/ FollowRedirect
    \/ IdLookup
    \/ ChainRead
    \/ RangeQuery
    \/ Attach
    \/ Return

RouteSpec == Init /\ [][RouteNext]_vars

\* Clients of the routes on a store whose operations may fail.
FailNext ==
    \/ AppendBlock
    \/ InsertTransaction
    \/ InsertMosaic
    \/ InsertNamespace
    \/ InsertAccount
    \/ RouteRequest
    \/ FollowRedirect
    \/ IdLookup
    \/ ChainRead
    \/ RangeQuery
    \/ Attach
    \/ StoreFailure
    \/ Return

FailSpec == Init /\ [][FailNext]_vars

\* Clients of the routes that ask twice.
RepeatNext ==
    \/ AppendBlock
    \/ InsertTransaction
    \/ InsertMosaic
    \/ InsertNamespace
    \/ InsertAccount
    \/ RouteRequest
    \/ FollowRedirect
    \/ RepeatRequest
    \/ IdLookup
    \/ ChainRead
    \/ RangeQuery
    \/ Attach
    \/ Return

RepeatSpec == Init /\ [][RepeatNext]_vars

\* Callers of the timeline methods of the with-filter family.
FilterInit ==
    /\ family = "transactionByTypeWithFilterTimeline"
    /\ timeline = [database |-> DatabaseOf(family), entries |-> TimelineOf(family)]
    /\ collection = {}
    /\ chainHeight = 0
    /\ namespaces = {}
    /\ multisigs = {Multisig(AddressOf(1))}
    /\ NoCall
    /\ dirty = FALSE

FilterNext ==
    \/ InsertTransfer
    \/ CallTimeline
    \/ IdLookup
    \/ RangeQuery
    \/ Attach
    \/ Return

FilterSpec == FilterInit /\ [][FilterNext]_vars

\* Clients of the routes of every family, the with-filter family included.
CursorInit == Init \/ FilterInit

CursorNext ==
    \/ AppendBlock
    \/ InsertTransaction
    \/ InsertTransfer
    \/ InsertMosaic
    \/ InsertNamespace
    \/ InsertAccount
    \/ RouteRequest
    \/ FollowRedirect
    \/ IdLookup
    \/ ChainRead
    \/ RangeQuery
    \/ Attach
    \/ Return

CursorSpec == CursorInit /\ [][CursorNext]_vars

\* Callers and clients of the namespace family on a store with
\* sub-namespaces.
NamespaceInit == Init /\ family = "namespaceTimeline"

NamespaceNext ==
    \/ InsertNamespace
    \/ InsertChildNamespace
    \/ CallTimeline
    \/ RouteRequest
    \/ IdLookup
    \/ RangeQuery
    \/ Return

NamespaceSpec == NamespaceInit /\ [][NamespaceNext]_vars

\* Clients of the blocks route that anchor at a height.
HeightInit == Init /\ family = "blockTimeline"

HeightNext ==
    \/ AppendBlock
    \/ RouteDecimal
    \/ IdLookup
    \/ ChainRead
    \/ RangeQuery
    \/ Return

HeightSpec == HeightInit /\ [][HeightNext]_vars

\* Callers of the block methods of the database.
DbInit == Init /\ family = "blockTimeline"

DbNext ==
    \/ AppendBlock
    \/ CallBlocksv2
    \/ ChainRead
    \/ Blocksv2Query
    \/ Return

DbSpec == DbInit /\ [][DbNext]_vars

\* Callers of the timeline methods of the time-sorted families while the
\* chain grows.
AppendInit == Init /\ family \in TimeSortedFamilies

AppendNext ==
    \/ AppendBlock
    \/ AppendTransaction
    \/ AppendMosaic
    \/ AppendNamespace
    \/ CallTimeline
    \/ IdLookup
    \/ ChainRead
    \/ RangeQuery
    \/ Attach
    \/ Return

AppendSpec == AppendInit /\ [][AppendNext]_vars

\* ------------------------------------------------- the families' orders
\* The stored document a record or a page entry came from.
IdOf(f, e) ==
    IF Has(e, "_id") THEN e["_id"]
    ELSE IF Has(e, "meta.id") THEN e["meta.id"]
    ELSE CASE f = "blockTimeline" -> e["block.height"]
           [] f = "mosaicTimeline" -> CHOOSE i \in 1..(MaxDocs + 1) : MosaicIdOf(i) = e["mosaic.id"]
           [] f \in AccountFamilies -> CHOOSE i \in 1..(MaxDocs + 1) : AddressOf(i) = e["account.address"]
StoredDoc(e) == CHOOSE d \in collection : d["_id"] = IdOf(family, e)

\* The mosaic a balance family ranks by, when its alias is linked.
RankedMosaic ==
    LET mosaic == CASE family = "accountByCurrencyBalanceTimeline" -> networkCurrencyMosaic(namespaces)
                    [] family = "accountByHarvestBalanceTimeline" -> networkHarvestMosaic(namespaces)
                    [] family = "accountByXemBalanceTimeline" -> networkXemMosaic(namespaces)
    IN IF mosaic.kind = "undefined" THEN 0 ELSE mosaic.docs[1]

\* The complete sort-key tuple of a stored document in the family's order.
SortKey(d) ==
    CASE family = "blockTimeline" -> <<d["block.height"]>>
      [] family \in TransactionFamilies -> <<d["meta.height"], d["meta.index"]>>
      [] family = "mosaicTimeline" -> <<d["mosaic.startHeight"], d["_id"]>>
      [] family = "namespaceTimeline" -> <<d["namespace.startHeight"], d["_id"]>>
      [] family = "accountByImportanceTimeline" ->
            <<addFieldImportance(d), d["account.publicKeyHeight"], d["_id"]>>
      [] family = "accountByHarvestedBlocksTimeline" ->
            <<addFieldHarvestedBlocks(d), d["account.publicKeyHeight"], d["_id"]>>
      [] family = "accountByHarvestedFeesTimeline" ->
            <<addFieldHarvestedFees(d), addFieldHarvestedBlocks(d), d["account.publicKeyHeight"], d["_id"]>>
      [] family \in BalanceFamilies ->
            <<addFieldMosaicBalance(d, RankedMosaic), d["account.publicKeyHeight"], d["_id"]>>

\* Lexicographic strict order on tuples of one length.
LexLess(a, b) == \E i \in 1..Len(a) : (\A j \in 1..(i - 1) : a[j] = b[j]) /\ a[i] < b[i]

Below(d, e) == LexLess(SortKey(d), SortKey(e))

\* A request has resolved to a page.
HasPage == pc = "done" /\ key # "" /\ result.kind = "array"
\* ... and it was anchored at the record an identifier resolved to.
HasAnchoredPage == HasPage /\ Entry.type = "identifier" /\ record.kind = "array"
PageDocs == {StoredDoc(result.docs[i]) : i \in 1..Len(result.docs)}
Anchor == StoredDoc(record.docs[1])

\* C1: a from request anchored at a record R resolved from an identifier
\* returns only records strictly below R in the family's order, a since
\* request only records strictly above R; R is in neither page.
C1_PageStrictlyBeyondAnchor ==
    HasAnchoredPage =>
        \A d \in PageDocs :
            /\ d # Anchor
            /\ IF key \in FromKeys THEN Below(d, Anchor) ELSE Below(Anchor, d)

C1_Witness ==
    /\ HasAnchoredPage
    /\ key \notin FromKeys
    /\ Len(result.docs) >= 1
    /\ \E d \in collection : Below(d, Anchor)

\* C5: every page is in strictly descending order of the complete sort-key
\* tuple, so no two of its entries share the key.
C5_PageStrictlyDescending ==
    HasPage =>
        \A i \in 1..(Len(result.docs) - 1) :
            Below(StoredDoc(result.docs[i + 1]), StoredDoc(result.docs[i]))

C5_Witness == HasPage /\ key \notin FromKeys /\ Len(result.docs) >= 3

\* C6: a timeline method called with count N that resolves to a sequence
\* resolves to at most N records.
C6_AtMostCount == HasPage /\ args # <<>> => Len(result.docs) <= Last(args)

C6_Witness == HasPage /\ Len(result.docs) = Last(args) /\ Last(args) >= 1 /\ Cardinality(collection) > Last(args)

\* C8: fromMin and sinceMax resolve to the empty sequence whatever their
\* arguments, and no store method is called for them.
C8_TriviallyEmpty ==
    pc = "done" /\ key \in {"fromMin", "sinceMax"} => result = Resolved(<<>>) /\ storeOps = <<>>

C8_Witness == pc = "done" /\ key = "sinceMax" /\ Last(args) >= 1 /\ collection # {}

\* The records a request to the family can return.
Returnable ==
    {d \in collection :
        /\ family \in TransactionFamilies => ~Has(d, "meta.aggregateId")
        /\ family = "transactionByTypeTimeline" => d["transaction.type"] = args[Len(args) - 1]}

Min(a, b) == IF a <= b THEN a ELSE b

\* The records of S nearest above (below) a bound: as many as the count
\* allows, and none of S between the bound and one of them left out.
NearestAbove(page, S, count) ==
    /\ page \subseteq S
    /\ Cardinality(page) = Min(count, Cardinality(S))
    /\ \A r \in page, d \in S \ page : Below(r, d)
NearestBelow(page, S, count) ==
    /\ page \subseteq S
    /\ Cardinality(page) = Min(count, Cardinality(S))
    /\ \A r \in page, d \in S \ page : Below(d, r)

\* C2: since with limit N returns the N records nearest above the anchor
\* (all of them when fewer exist), from the N nearest below; no record
\* between the anchor and a returned record is left out.
C2_NearestToAnchor ==
    HasAnchoredPage /\ ~dirty /\ Last(args) >= 1 =>
        IF key \in FromKeys
          THEN NearestBelow(PageDocs, {d \in Returnable : Below(d, Anchor)}, Last(args))
          ELSE NearestAbove(PageDocs, {d \in Returnable : Below(Anchor, d)}, Last(args))

\* The page the opposite duration resolves to for the same anchor and count.
OppositeKey == (IF key \in FromKeys THEN "since" ELSE "from") \o KeyNameOf(key)
OppositePage ==
    LET page == RangeMethod(TimelineOf(family)[OppositeKey].methodName, collection, namespaces,
                            chainHeight, RangeArgs)
    IN {StoredDoc(page.docs[i]) : i \in 1..Len(page.docs)}

\* C3: with a count of at least the number of stored records, from(R) and
\* since(R) together hold every returnable record other than R, each once.
C3_FromSinceCoverAll ==
    HasAnchoredPage /\ ~dirty /\ Last(args) >= Cardinality(collection) /\ Anchor \in Returnable =>
        /\ PageDocs \cup OppositePage = Returnable \ {Anchor}
        /\ PageDocs \cap OppositePage = {}
        /\ Cardinality(PageDocs) = Len(result.docs)

\* C4: absent writes, the pages of a client that pages with from on the
\* lowest record of each page, or with since on the highest, are pairwise
\* disjoint.
PageIds(page) == {IdOf(family, page[i]) : i \in 1..Len(page)}
AllPages == IF HasPage THEN Append(pages, result.docs) ELSE pages
C4_PagesDisjoint ==
    ~dirty =>
        \A i \in 1..Len(AllPages), j \in 1..Len(AllPages) :
            i # j => PageIds(AllPages[i]) \cap PageIds(AllPages[j]) = {}

C4_Witness ==
    /\ ~dirty /\ HasPage /\ Len(pages) >= 2
    /\ \A i \in 1..Len(AllPages) : AllPages[i] # <<>>

\* C7: fromMax with limit N returns the N greatest stored records of the
\* family and sinceMin the N least: the sentinel tuple excludes none.
C7_SentinelPages ==
    HasPage /\ ~dirty /\ Last(args) >= 1 =>
        /\ key = "fromMax" => NearestBelow(PageDocs, Returnable, Last(args))
        /\ key = "sinceMin" => NearestAbove(PageDocs, Returnable, Last(args))

\* C9: when the identifier lookup finds no record the timeline method
\* resolves to undefined, the From/Since range method is not invoked, and
\* the route answers 404, for from and since alike.
C9_LookupMiss ==
    pc = "done" /\ key # "" /\ Entry.type = "identifier" /\ record.kind = "undefined" =>
        /\ result = Undefined
        /\ storeOps = <<Entry.idMethodName>>
        /\ Routed => status = 404

C9_Witness ==
    /\ pc = "done" /\ Routed /\ request.duration = "since" /\ key # ""
    /\ Entry.type = "identifier" /\ record.kind = "undefined"
    /\ collection # {}

\* The anchors the family documents: its sentinel keywords and the
\* identifiers of its kinds written in their own alphabet at their length.
SentinelKeywords(f) ==
    IF f \in AccountFamilies THEN {"least", "most", "min", "max"} ELSE {"earliest", "latest", "min", "max"}
WellFormed(f, anchor) ==
    \E sh \in Shapes(f) :
        CASE sh[3] = "dec" -> anchor.len >= 1 /\ anchor.alphabet = "dec"
          [] sh[3] = "hex" -> anchor.len = sh[2] /\ anchor.alphabet \in {"dec", "hex"}
          [] sh[3] = "b32" -> anchor.len = sh[2] /\ anchor.alphabet = "b32"

\* C10: an anchor that is neither a sentinel keyword nor a well-formed
\* identifier of the family is answered 409, for both durations, and no
\* store operation is performed for it.
C10_MalformedAnchor ==
    /\ Routed
    /\ pc # "redirected"
    /\ request.anchor.text \notin SentinelKeywords(family)
    /\ ~WellFormed(family, request.anchor)
    => status = 409 /\ storeOps = <<>>


\* ------------------------------------------------------------ redirects
InRange(n) == countRange.min <= n /\ n <= countRange.max

AnchorExists ==
    \/ request.anchor.text \in SentinelKeywords(family)
    \/ /\ key # "" /\ Entry.type = "identifier"
       /\ \/ record.kind = "array"
          \/ /\ family \in BalanceFamilies
             /\ \E d \in collection :
                  d["account.address"] =
                      IF KeyNameOf(key) = "Address" THEN args[1] ELSE publicKeyToAddress(args[1])

\* A balance family's well-known namespace is there and has its alias.
MosaicResolves == family \in BalanceFamilies => RankedMosaic # 0

\* C12 as stated: following the redirect reaches a response that is no
\* redirect after one hop, and that response is 200 for a valid anchor.
C12_RedirectFollowed ==
    Routed /\ request.hops >= 1 /\ Settled =>
        /\ request.hops = 1
        /\ status # 302
        /\ AnchorExists => status = 200

\* C12 amended: following the redirect reaches a response that is no
\* redirect after one hop; for a valid anchor it is 200, except in a balance
\* family whose namespace or alias is absent, where it is 404 for every
\* method that queries the store.
C12_RedirectFollowedResolved ==
    Routed /\ request.hops >= 1 /\ Settled =>
        /\ request.hops = 1
        /\ status # 302
        /\ AnchorExists =>
             status = IF ~MosaicResolves /\ Entry.type # "empty" THEN 404 ELSE 200

C12_Witness ==
    /\ Routed /\ request.hops = 1 /\ pc = "done" /\ status = 200
    /\ Entry.type = "identifier" /\ result.docs # <<>>

\* The status the route gives a request on the store as it stands, every
\* store operation of the request run on that store.
AnswerTo(req) ==
    LET limit == parseRangeValue(req.limit, countRange)
        chain == HandlerOf(family)
        accepting == Accepting(chain, req.anchor)
        branch == chain[CHOOSE i \in accepting : \A j \in accepting : i <= j]
        parsed == parseValue(req.anchor, branch.parser)
        entry == TimelineOf(family)[req.duration \o branch.suffix]
        tail == req.type \o <<limit.value>>
        found == Lookup(entry.idMethodName, collection, namespaces, parsed.value)
        page == RangeMethod(entry.methodName, collection, namespaces, chainHeight,
                    IF entry.type = "absolute" THEN generateArgs(entry.generateArgs, <<>>) \o tail
                    ELSE generateArgs(entry.generateArgs, found.docs[1]) \o tail)
    IN IF ~limit.defined \/ limit.value = 0 THEN 302
       ELSE IF accepting = {} THEN 409
       ELSE IF branch.parser # "" /\ parsed.thrown THEN 500
       ELSE IF entry.type = "empty" THEN 200
       ELSE IF entry.type = "identifier" /\ found.kind = "undefined" THEN 404
       ELSE IF page.kind = "undefined" THEN 404
       ELSE 200

\* C13: a request with an out-of-range limit is redirected whatever its
\* anchor, before any store operation, and the status obtained after
\* following the redirect is the status of the same request made with any
\* in-range limit.
C13_LimitBeforeAnchor ==
    /\ Routed /\ request.hops = 0 /\ ~InRange(request.limit) =>
           status = 302 /\ key = "" /\ storeOps = <<>>
    /\ Routed /\ request.hops = 1 /\ Settled /\ ~dirty =>
           \A n \in countRange.min..countRange.max :
               status = AnswerTo([request EXCEPT !.limit = n])

C13_Witness ==
    /\ Routed /\ request.hops = 1 /\ Settled /\ ~dirty
    /\ status = 409


\* ------------------------------------------------- count 0, absent alias
\* C14: every timeline method, of every operation kind, called with count
\* 0 resolves to the empty sequence without performing any store operation.
C14_CountZeroEmpty ==
    pc = "done" /\ key # "" /\ Last(args) = 0 => result = Resolved(<<>>) /\ storeOps = <<>>

\* C15 as stated: in a balance family whose well-known namespace or alias
\* is absent every request, sentinel anchors included, resolves to undefined
\* and is answered 404.
C15_AbsentAliasNotFound ==
    Routed /\ pc = "done" /\ family \in BalanceFamilies /\ ~MosaicResolves =>
        result = Undefined /\ status = 404

\* C15 amended: in a balance family whose well-known namespace or alias is
\* absent every request that reaches the store resolves to undefined and is
\* answered 404; from-min and since-max resolve to the empty sequence
\* without reading the namespace and are answered 200.
C15_AbsentAliasNotFoundUnlessEmpty ==
    Routed /\ pc = "done" /\ family \in BalanceFamilies /\ ~MosaicResolves =>
        IF Entry.type = "empty" THEN result = Resolved(<<>>) /\ status = 200
        ELSE result = Undefined /\ status = 404

C15_Witness ==
    /\ Routed /\ pc = "done" /\ family \in BalanceFamilies /\ ~MosaicResolves
    /\ namespaces # {}
    /\ Entry.type = "absolute" /\ collection # {} /\ status = 404


\* ------------------------------------------------------- store failures
\* C16: if a store operation (identifier lookup, chain-height read or range
\* query) fails during a cursor request, the request is answered with an
\* error response; it is never left without a response.
C16_FailureAnswered == Routed /\ pc = "failed" => status >= 400

\* C17: if fetching the inner transactions of aggregate parents fails, the
\* transaction page is still returned with its parent transactions; the
\* page request itself does not fail.
C17_AttachFailureKeepsPage ==
    Settled /\ storeOps # <<>> /\ Last(storeOps) = "queryAggregateTransactions" =>
        /\ pc = "done"
        /\ result.kind = "array"
        /\ extractAggregateIds(result.docs) # {}
        /\ Routed => status = 200


\* ------------------------------------------------------------ ingestion
\* The documents stored when the n-th document had just been inserted.
Prefix(n) == {d \in collection : d["_id"] <= n}

\* What the timeline method [k] called with [a] resolves to on a store
\* [docs], every store operation of the call run on that store.
ResultOf(k, a, docs) ==
    LET entry == TimelineOf(family)[k]
        found == Lookup(entry.idMethodName, docs, namespaces, a[1])
        height == IF family = "blockTimeline" THEN Cardinality(docs) ELSE 0
        page == RangeMethod(entry.methodName, docs, namespaces, height,
                    IF entry.type = "absolute" THEN generateArgs(entry.generateArgs, <<>>) \o a
                    ELSE generateArgs(entry.generateArgs, found.docs[1]) \o Tail(a))
    IN IF entry.type = "empty" THEN Resolved(<<>>)
       ELSE IF entry.type = "identifier" /\ found.kind = "undefined" THEN Undefined
       ELSE IF Last(a) = 0 THEN Resolved(<<>>)
       ELSE IF family \in TransactionFamilies /\ page.kind = "array"
         THEN Resolved(addAggregateTransactions(docs, page.docs))
       ELSE page

PageOn(docs) == ResultOf(key, args, docs)

\* C18: in a time-sorted family whose store grows by appends above every
\* stored key, a from request anchored at a stored record of the family
\* resolves to the page it resolves to on every earlier store that held the
\* anchor: the records appended before the request or between its store
\* operations do not change the page.
C18_AppendsInvisibleToFrom ==
    HasAnchoredPage /\ key \in FromKeys /\ ~Has(Anchor, "meta.aggregateId") =>
        \A n \in Anchor["_id"]..Cardinality(collection) : result = PageOn(Prefix(n))

C18_Witness ==
    /\ HasAnchoredPage /\ key \in FromKeys /\ family = "blockTimeline"
    /\ result.docs # <<>>
    /\ chainRead < chainHeight


\* ------------------------------------------------- forward and back again
\* The first page of the family, from(max, N), and the page after it, from
\* (lowest record of the first page, N), for the N and the other arguments
\* of the call in progress.
FirstPage == ResultOf("fromMax", Tail(args), collection)
SecondPage ==
    ResultOf("from" \o PageKey(family),
             <<PageId(family, Last(FirstPage.docs))>> \o Tail(args), collection)

\* The call in progress is since(highest record of the second page, N).
PagedBack ==
    /\ pc = "done" /\ key = "since" \o PageKey(family) /\ ~dirty
    /\ Last(args) >= 1
    /\ FirstPage.kind = "array" /\ FirstPage.docs # <<>>
    /\ SecondPage.kind = "array" /\ SecondPage.docs # <<>>
    /\ args[1] = PageId(family, Head(SecondPage.docs))

\* C19: absent writes, if page1 = from(max, N) and page2 = from(lowest
\* record of page1, N) is non-empty, then since(highest record of page2, N)
\* equals page1.
C19_ForwardThenBack == PagedBack => result = FirstPage


SinceMinPage ==
    /\ HasPage /\ family = "blockTimeline" /\ key = "sinceMin"
    /\ Last(args) >= 1 /\ chainRead >= Last(args)

\* C21 as stated: with chain height at least N, blocks since min with limit
\* N returns exactly N blocks in descending height order, the smallest
\* height at least 2.
C21_SinceMinPage ==
    SinceMinPage =>
        /\ Len(result.docs) = Last(args)
        /\ \A i, j \in 1..Len(result.docs) :
               i < j => result.docs[i]["block.height"] > result.docs[j]["block.height"]
        /\ \A i \in 1..Len(result.docs) : result.docs[i]["block.height"] >= 2

\* C21 amended: with chain height at least N, blocks since min with limit
\* N returns exactly N blocks in descending height order, the blocks at
\* heights N down to 1; the smallest returned height is 1.
C21_SinceMinPageFromOne ==
    SinceMinPage =>
        /\ Len(result.docs) = Last(args)
        /\ \A i \in 1..Len(result.docs) : result.docs[i]["block.height"] = Last(args) + 1 - i

C21_Witness == SinceMinPage /\ Last(args) = 2 /\ chainRead = 3 /\ Len(result.docs) = 2

\* ------------------------------------------------- account anchors
\* C22: an account anchor that is a base32 address of 39 characters or of
\* 40 characters is dispatched to the Address lookup, not rejected as
\* malformed.
C22_AddressBothLengths ==
    /\ Routed /\ family \in AccountFamilies
    /\ request.anchor.alphabet = "b32" /\ request.anchor.len \in {39, 40}
    /\ InRange(request.limit)
    => status # 409 /\ key = request.duration \o "Address"

\* ------------------------------------------------- sentinel keywords
\* The other spelling of a sentinel keyword in a family.
Alias(f, text) ==
    LET low == IF f \in AccountFamilies THEN "least" ELSE "earliest"
        high == IF f \in AccountFamilies THEN "most" ELSE "latest"
    IN CASE text = "min" -> low
         [] text = low -> "min"
         [] text = "max" -> high
         [] text = high -> "max"

\* The timeline method the family's handler selects for an anchor, "" when
\* it rejects the anchor.
Selected(duration, anchor) ==
    LET chain == HandlerOf(family)
        accepting == Accepting(chain, anchor)
    IN IF accepting = {} THEN ""
       ELSE duration \o chain[CHOOSE i \in accepting : \A j \in accepting : i <= j].suffix

\* C23: a request anchored at a sentinel keyword selects the timeline
\* method, and returns the page, that the same request anchored at the
\* keyword's alias does: earliest / min and latest / max in the time-sorted
\* families, least / min and most / max in the account families.
C23_AliasesInterchangeable ==
    Routed /\ pc = "done" /\ ~dirty /\ request.anchor.text \in SentinelKeywords(family) =>
        LET other == Selected(request.duration, Keyword(Alias(family, request.anchor.text)))
        IN /\ other = key
           /\ result = ResultOf(other, args, collection)

C23_Witness ==
    /\ Routed /\ pc = "done" /\ ~dirty
    /\ request.anchor.text = "most"
    /\ result.kind = "array" /\ Len(result.docs) >= 2

AccountTuple(d) == <<SortKey(d)[1], d["account.publicKeyHeight"], d["_id"]>>

\* C25: in every account family the From predicate selects the accounts
\* whose tuple (sort field, publicKeyHeight, id) is lexicographically
\* strictly less than the anchor's, the Since predicate those strictly
\* greater: with a count that cuts nothing off, the page holds exactly
\* those accounts, the ones that tie with the anchor on the sort field
\* among them.
C25_AccountTuplePredicate ==
    /\ HasAnchoredPage /\ family \in AccountFamilies /\ ~dirty
    /\ Last(args) >= Cardinality(collection)
    => PageDocs = {d \in collection :
                      IF key \in FromKeys THEN LexLess(AccountTuple(d), AccountTuple(Anchor))
                      ELSE LexLess(AccountTuple(Anchor), AccountTuple(d))}

\* ------------------------------------------------- block windows
Max(a, b) == IF a >= b THEN a ELSE b

\* A call of the database method [methodName] with a count of at least 1
\* has resolved.
Blocksv2Page(methodName) == pc = "done" /\ key = methodName /\ args[2] >= 1

\* The heights of the page, and of the stored blocks.
PageHeights == {result.docs[i]["block.height"] : i \in 1..Len(result.docs)}
StoredHeights == {d["block.height"] : d \in collection}

\* C26 as stated: blocksv2From(target, count) returns the blocks whose
\* height lies in [startHeight, endHeight), startHeight = max(1, target -
\* count), endHeight = min(target, chainHeight + 1), for every target.
C26_FromWindow ==
    Blocksv2Page("blocksv2From") =>
        LET endHeight == Min(args[1], chainRead + 1)
            startHeight == Max(1, args[1] - args[2])
        IN /\ PageHeights = {h \in StoredHeights : startHeight <= h /\ h < endHeight}
           /\ Len(result.docs) = Cardinality(PageHeights)

\* C26 amended: blocksv2From(target, count) returns the blocks whose
\* height lies in [startHeight, endHeight), endHeight = min(target,
\* chainHeight + 1), startHeight = max(1, endHeight - count), for every
\* target.
C26_FromWindowFromEnd ==
    Blocksv2Page("blocksv2From") =>
        LET endHeight == Min(args[1], chainRead + 1)
            startHeight == Max(1, endHeight - args[2])
        IN /\ PageHeights = {h \in StoredHeights : startHeight <= h /\ h < endHeight}
           /\ Len(result.docs) = Cardinality(PageHeights)

C26_Witness ==
    /\ Blocksv2Page("blocksv2From")
    /\ args[1] = maxLong /\ chainRead = 3 /\ Len(result.docs) = 2

\* C27: blocksv2Since(target, count) returns the blocks whose height lies
\* in (startHeight, endHeight], startHeight = min(target, chainHeight + 1),
\* endHeight = startHeight + count; no block is appended meanwhile.
C27_SinceWindow ==
    Blocksv2Page("blocksv2Since") /\ ~dirty =>
        LET startHeight == Min(args[1], chainRead + 1)
            endHeight == startHeight + args[2]
        IN /\ PageHeights = {h \in StoredHeights : startHeight < h /\ h <= endHeight}
           /\ Len(result.docs) = Cardinality(PageHeights)

C27_Witness ==
    /\ Blocksv2Page("blocksv2Since") /\ ~dirty
    /\ args = <<1, 2>> /\ Len(result.docs) = 2

\* C28: a blocks since query whose anchor height is above the chain height
\* it reads returns the empty page, whatever number of blocks is appended
\* between its chain-height read and its range query, and no block at or
\* below the anchor.
C28_SinceAboveTipEmpty ==
    Blocksv2Page("blocksv2Since") /\ args[1] > chainRead =>
        /\ result.docs = <<>>
        /\ \A h \in PageHeights : h > args[1]

InnerOf(t) == IF Has(t, "transaction.transactions") THEN t["transaction.transactions"] ELSE <<>>

\* C30: no entry of a transaction page is an embedded transaction, and
\* every entry of aggregate type carries exactly the stored documents whose
\* aggregateId is its id, each once, and none of another parent; the other
\* entries carry none.
C30_PageParentsAndInner ==
    HasPage /\ family \in TransactionFamilies /\ ~dirty =>
        \A i \in 1..Len(result.docs) :
            LET t == result.docs[i]
                inner == InnerOf(t)
                stored == {d \in collection : Has(d, "meta.aggregateId") /\ d["meta.aggregateId"] = t["meta.id"]}
            IN /\ ~Has(t, "meta.aggregateId")
               /\ ~Has(StoredDoc(t), "meta.aggregateId")
               /\ {inner[k] : k \in 1..Len(inner)} = {copyAndDeleteId(Resolved(<<d>>)).docs[1] : d \in stored}
               /\ Len(inner) = Cardinality(stored)
               /\ ~isAggregateType(t) => inner = <<>>

C30_Witness ==
    /\ HasPage /\ family \in TransactionFamilies /\ ~dirty
    /\ Len(result.docs) = 2
    /\ \E i \in 1..2 : Len(InnerOf(result.docs[i])) = 1 /\ isAggregateType(result.docs[3 - i])

\* ------------------------------------------------ typed transaction pages
TypedFamilies == {"transactionByTypeTimeline", "transactionByTypeWithFilterTimeline"}

\* The type and the sub-filter a typed request names.
RequestedType ==
    IF family = "transactionByTypeTimeline" THEN args[Len(args) - 1] ELSE args[Len(args) - 2]
RequestedFilter == IF family = "transactionByTypeTimeline" THEN "" ELSE args[Len(args) - 1]

\* A stored transaction has the requested type and passes the sub-filter.
Satisfies(d) ==
    /\ ~Has(d, "meta.aggregateId")
    /\ d["transaction.type"] = RequestedType
    /\ RequestedFilter = "mosaic" =>
          /\ Has(d, "transaction.mosaics")
          /\ \E i \in 1..Len(d["transaction.mosaics"]) :
                d["transaction.mosaics"][i].id \notin {CURRENCY_ID, HARVEST_ID}
    /\ RequestedFilter = "multisig" =>
          /\ Has(d, "meta.addresses")
          /\ \E m \in multisigs : m["multisig.accountAddress"] \in d["meta.addresses"]

\* The satisfying transactions on the requested side of the anchor.
Candidates ==
    {d \in collection :
        /\ Satisfies(d)
        /\ Entry.type = "identifier" => IF key \in FromKeys THEN Below(d, Anchor) ELSE Below(Anchor, d)}

\* C31: in the by-type and by-type-with-filter timelines every returned
\* transaction has the requested type and passes the sub-filter, and the
\* page holds the N satisfying transactions nearest to the anchor, or all
\* of them when fewer exist: the predicates are applied before the limit.
C31_TypedBeforeLimit ==
    /\ HasPage /\ family \in TypedFamilies /\ Entry.type # "empty" /\ ~dirty /\ Last(args) >= 1
    /\ Entry.type = "identifier" => record.kind = "array"
    => /\ \A d \in PageDocs : Satisfies(d)
       /\ IF key \in FromKeys
            THEN NearestBelow(PageDocs, Candidates, Last(args))
            ELSE NearestAbove(PageDocs, Candidates, Last(args))

\* ... and the part of it that the code keeps: every returned transaction
\* satisfies the predicates, and the page is as long as the limit allows.
TypedPageSatisfies ==
    /\ HasPage /\ family \in TypedFamilies /\ Entry.type # "empty" /\ ~dirty /\ Last(args) >= 1
    /\ Entry.type = "identifier" => record.kind = "array"
    => /\ \A d \in PageDocs : Satisfies(d)
       /\ Cardinality(PageDocs) = Min(Last(args), Cardinality(Candidates))

\* A with-filter call names a type or a filter the store method rejects.
UnknownTypeOrFilter ==
    /\ family = "transactionByTypeWithFilterTimeline" /\ key # ""
    /\ RequestedType # "transfer" \/ RequestedFilter \notin {"mosaic", "multisig"}

\* The call has got as far as database[methodName]: its entry queries, the
\* count is above 0 and the identifier, if any, resolved to a record.
ReachedRange ==
    /\ Entry.type # "empty"
    /\ Last(args) >= 1
    /\ Entry.type = "identifier" => record.kind = "array"

\* C32: every by-type-with-filter timeline method called with a type other
\* than transfer, or a filter other than mosaic or multisig, fails with an
\* error; it never resolves to a page.
C32_UnknownTypeOrFilterFails ==
    UnknownTypeOrFilter /\ pc \notin {"lookup", "range"} => pc = "thrown" /\ result = Thrown

\* C32 as the code has it: the methods that get as far as the store's range
\* method fail with an error on such a type or filter; fromMin, sinceMax, a
\* count of 0 and an identifier that is not found never get there.
C32_UnknownTypeOrFilterFailsInRange ==
    UnknownTypeOrFilter /\ ReachedRange /\ pc \notin {"lookup", "range"} =>
        pc = "thrown" /\ result = Thrown

C32_Witness ==
    /\ UnknownTypeOrFilter /\ pc = "thrown"
    /\ Entry.type = "identifier" /\ key \notin FromKeys
    /\ RequestedType = "transfer" /\ RequestedFilter = "other"
    /\ \E d \in collection : d["transaction.type"] = "transfer" /\ Below(Anchor, d)

\* ------------------------------------------------------ namespace lookup
\* The rows a lookup by namespace id may return: active, and the id is the
\* row's own, the level at index depth - 1.
ActiveWithId(id) ==
    {d \in collection :
        /\ d["meta.active"]
        /\ d["namespace.depth"] \in 1..3
        /\ NamespaceIdOf(d) = id}

LookedUpById == key \in {"fromId", "sinceId"} /\ family = "namespaceTimeline" /\ pc \notin {"idle", "lookup"}

\* C33: the lookup of a namespace by namespace id returns a row only if the
\* row is active and the id is its level at index depth - 1; when no such
\* row exists (the id is only at a non-terminal level of a row, or only in
\* inactive rows) the answer is not-found.
C33_NamespaceByIdTerminalActive ==
    LookedUpById /\ ~dirty =>
        IF ActiveWithId(args[1]) = {}
          THEN record = Undefined /\ result = Undefined /\ (Routed => status = 404)
          ELSE record.kind = "array" /\ record.docs[1] \in ActiveWithId(args[1])

C33_Witness ==
    /\ LookedUpById /\ ~dirty /\ Routed /\ status = 404
    /\ \E d \in collection : d["meta.active"] /\ d["namespace.depth"] = 3 /\ d["namespace.level1"] = args[1]
    /\ \E d \in collection : ~d["meta.active"] /\ NamespaceIdOf(d) = args[1]

\* --------------------------------------------------- decimal block anchors
\* The blocks route has looked up the decimal anchor of the request.
AnchoredAtDecimal ==
    /\ Routed /\ family = "blockTimeline" /\ request.anchor.alphabet = "dec"
    /\ key \in {"fromHeight", "sinceHeight"} /\ pc \notin {"idle", "lookup"}

\* C34: for a decimal anchor that denotes the integer n, the blocks route
\* anchors at the block of height exactly n, or answers not-found when no
\* block has height n; it never anchors at a block of another height, for
\* any n, those at or above 2^(w-1) and 2^w included.
C34_DecimalAnchorExact ==
    AnchoredAtDecimal /\ ~dirty =>
        IF \E d \in collection : d["block.height"] = request.anchor.value
          THEN record.kind = "array" /\ record.docs[1]["block.height"] = request.anchor.value
          ELSE record = Undefined /\ status = 404

\* ... and the same for the anchors below 2^w, which the code keeps.
DecimalAnchorExactBelowWrap ==
    AnchoredAtDecimal /\ ~dirty /\ request.anchor.value < Pow2(LongBits) =>
        IF \E d \in collection : d["block.height"] = request.anchor.value
          THEN record.kind = "array" /\ record.docs[1]["block.height"] = request.anchor.value
          ELSE record = Undefined /\ status = 404

\* ------------------------------------------------- responses and next()
\* The handler of the request has finished without raising: it redirected,
\* refused the anchor, or its timeline promise resolved and was answered.
Answered == Routed /\ pc \in {"redirected", "rejected", "done"}

\* C35: a cursor request whose handler does not raise gets exactly one
\* response action, a send or a redirect, followed by exactly one call of
\* next(); nothing is sent and next() is not called before that. This is so
\* on the redirect, invalid-anchor, not-found and page paths.
C35_OneResponseThenNext ==
    Routed /\ pc # "thrown" =>
        IF Answered
          THEN /\ Len(response) = 2
               /\ response[1] = (IF pc = "redirected" THEN "redirect" ELSE "send")
               /\ response[2] = "next"
          ELSE response = <<>>

C35_Witness ==
    /\ Answered /\ family = "transactionByTypeWithFilterTimeline"
    /\ status = 404 /\ response = <<"send", "next">> /\ request.hops = 1

\* ------------------------------------------- page records as anchors
\* The identifier of a kind that a client reads off a record of a page.
IdentifierOf(f, keyName, e) ==
    CASE keyName = "Hash" -> e["meta.hash"]
      [] keyName = "Height" -> e["block.height"]
      [] keyName = "ObjectId" -> e["meta.id"]
      [] keyName = "Address" -> e["account.address"]
      [] keyName = "PublicKey" -> e["account.publicKey"]
      [] keyName = "Id" ->
           IF f = "mosaicTimeline" THEN e["mosaic.id"]
           ELSE IF f = "namespaceTimeline" THEN NamespaceIdOf(e)
           ELSE e["meta.id"]

\* The identifier entries of the family's timeline.
IdentifierKeys == {k \in DOMAIN timeline.entries : timeline.entries[k].type = "identifier"}

\* The lookup of entry k on the identifier of page record e finds e.
FindsRecord(k, e) ==
    LET found == Lookup(timeline.entries[k].idMethodName, collection, namespaces,
                        IdentifierOf(family, KeyNameOf(k), e))
    IN found.kind = "array" /\ IdOf(family, found.docs[1]) = IdOf(family, e)

\* C36: absent writes, every record of a page can anchor a follow-up
\* request through each identifier its family exposes: the lookup finds
\* that record, so the request is not answered 404.
C36_PageRecordsAnchor ==
    HasPage /\ ~dirty =>
        \A i \in 1..Len(result.docs) : \A k \in IdentifierKeys : FindsRecord(k, result.docs[i])

\* ... and the same without the lookup by namespace id, which the code
\* keeps.
PageRecordsAnchorButNamespaceId ==
    HasPage /\ ~dirty =>
        \A i \in 1..Len(result.docs) : \A k \in IdentifierKeys :
            \/ family = "namespaceTimeline" /\ KeyNameOf(k) = "Id"
            \/ FindsRecord(k, result.docs[i])

\* The identifier of each kind read off a stored document.
StoredIdentifier(k, d) ==
    IF KeyNameOf(k) = "ObjectId" \/ (KeyNameOf(k) = "Id" /\ family \in TransactionFamilies)
      THEN d["_id"]
      ELSE IdentifierOf(family, KeyNameOf(k), d)

\* The identifier entries of the other kinds with the duration of the call.
OtherKinds ==
    {k \in IdentifierKeys : k # key /\ timeline.entries[k].methodName = Entry.methodName}

\* The record entry k looks up by the identifier of stored document d.
FoundThrough(k, d) ==
    Lookup(timeline.entries[k].idMethodName, collection, namespaces, StoredIdentifier(k, d))

\* Entry k anchors at stored document d.
\* (an inner transaction of an aggregate has no hash)
AnchorsAt(k, d) ==
    /\ KeyNameOf(k) = "Hash" => Has(d, "meta.hash")
    /\ FoundThrough(k, d).kind = "array"
    /\ IdOf(family, FoundThrough(k, d).docs[1]) = d["_id"]

\* The page of entry k anchored at stored document d, with the limit of the call.
PageThrough(k, d) ==
    LET page == RangeMethod(timeline.entries[k].methodName, collection, namespaces, chainRead,
                            generateArgs(timeline.entries[k].generateArgs, FoundThrough(k, d).docs[1])
                                \o Tail(args))
    IN IF family \in TransactionFamilies /\ page.kind = "array"
         THEN Resolved(addAggregateTransactions(collection, page.docs))
         ELSE page

AnchoredPage == HasPage /\ Entry.type = "identifier" /\ record.kind = "array" /\ Last(args) >= 1 /\ ~dirty

\* C37: a page anchored at a stored record through one identifier kind is
\* the page every other identifier kind of the family anchored at that
\* record yields, for the same duration and limit.
C37_SamePageThroughEachKind ==
    AnchoredPage =>
        \A k \in OtherKinds :
            AnchorsAt(k, StoredDoc(record.docs[1])) => PageThrough(k, StoredDoc(record.docs[1])) = result

C37_Witness ==
    /\ AnchoredPage /\ Len(result.docs) >= 1 /\ Cardinality(collection) > Len(result.docs) + 1
    /\ \E k \in OtherKinds :
           /\ AnchorsAt(k, StoredDoc(record.docs[1]))
           /\ FoundThrough(k, StoredDoc(record.docs[1])) # record

\* Timeline entry [method] is bound, and the lookup and range methods it
\* names are methods of the Timeline's database.
BoundByName(method) ==
    /\ method \in DOMAIN timeline.entries
    /\ timeline.entries[method].type = "identifier" =>
           timeline.entries[method].idMethodName \in MethodsOf(timeline.database)
    /\ timeline.entries[method].type # "empty" =>
           timeline.entries[method].methodName \in MethodsOf(timeline.database)

\* C38: for every anchor the family's route helper accepts, the method
\* name it computes is bound on the family's Timeline, and the lookup and
\* range methods that entry names are methods of the Timeline's database:
\* dispatch by name reaches no undefined method. Stated of every request
\* a route may receive and of the request it has dispatched.
C38_DispatchByNameBound ==
    /\ pc = "idle" =>
          \A duration \in {"from", "since"} : \A anchor \in Anchors(family) :
              Selected(duration, anchor) # "" => BoundByName(Selected(duration, anchor))
    /\ Routed /\ key # "" => BoundByName(key)

\* A route of a family served by NamespaceDb has dispatched an identifier
\* anchor: the lookup and the range method ran by name.
C38_Witness ==
    /\ Routed /\ pc = "done" /\ timeline.database = "NamespaceDb"
    /\ key = Selected(request.duration, request.anchor)
    /\ Entry.type = "identifier" /\ Len(storeOps) >= 2
    /\ storeOps[1] = Entry.idMethodName /\ storeOps[2] = Entry.methodName
    /\ family = "transactionByTypeWithFilterTimeline"


====
